---- MODULE Spec2Model ----
(***************************************************************************)
(* Model of the weather-effect subsystem of the portfolio site:            *)
(*   - the Weather Mode Controller (App in src/src/index.js and its later   *)
(*     revision src/unnamed/part_000): cold start, toggle, persistence,     *)
(*     theme classes;                                                       *)
(*   - the Effect Compositors (FloatingParticles, Snowfall,                 *)
(*     InstancedFallingItems, Fireflies, Rainfall): React lifecycle of one  *)
(*     mounted compositor, buffer initialization and the per-frame step.    *)
(* Positions live on an integer grid; Math.random() is a draw from a small  *)
(* set of quarter values.                                                   *)
(***************************************************************************)
EXTENDS Integers, Sequences, FiniteSets, TLC

(***************************************************************************)
(* Bounds of the model (not program constants).                            *)
(***************************************************************************)
\* toggles followed within one page session
MaxToggles == 5
\* largest `count` prop given to a compositor
MaxCount == 2
\* frame ticks followed per mounted compositor
MaxFrames == 2
\* particle fields generated per mounted compositor
MaxFields == 2
\* largest totalCount given to AutumnLeaves while its compositors run
MaxTotal == 4
\* frames followed per leaf compositor
MaxLeafFrames == 2
\* largest totalCount whose split is computed
MaxTotalCount == 60
\* frame ticks followed where the render loop is left running
MaxTicks == 7

(***************************************************************************)
(* Weather Mode Controller                                                 *)
(***************************************************************************)
WEATHER_MODES == <<"sakura", "fireflies", "snow", "rain", "autumn">>

DAY_START_HOUR == 6
DAY_END_HOUR == 18
MORNING_START_HOUR == 6
AFTERNOON_START_HOUR == 12
EVENING_START_HOUR == 17
NIGHT_START_HOUR == 19

Hours == 0..23

\* the two revisions of App.jsx found in the repository
AppRevisions == {"index_js", "part_000"}

\* localStorage under the key 'weatherMode': <<>> is "no item", <<s>> holds s
NoItem == <<>>
StoredValues ==
    {NoItem, <<"">>, <<"bogus-mode">>, <<"Sakura">>}
        \cup {<<WEATHER_MODES[k]>> : k \in 1..Len(WEATHER_MODES)}

\* Array.prototype.includes
Includes(arr, x) == \E k \in 1..Len(arr) : arr[k] = x

\* Array.prototype.indexOf (0-based, -1 when absent)
IndexOf(arr, x) ==
    IF Includes(arr, x)
    THEN (CHOOSE k \in 1..Len(arr) :
              arr[k] = x /\ \A j \in 1..(k - 1) : arr[j] # x) - 1
    ELSE -1

\* `savedWeather && WEATHER_MODES.includes(savedWeather)`
SavedIsValidNoIncludes(saved) == saved # NoItem /\ saved[1] # ""

SavedIsValid(saved) ==
    saved # NoItem /\ saved[1] # "" /\ Includes(WEATHER_MODES, saved[1])

\* the time-of-day default of src/src/index.js (day / night split)
DayNightDefault(h) ==
    IF h >= DAY_START_HOUR /\ h < DAY_END_HOUR THEN "sakura" ELSE "fireflies"

FourBandDefaultNoEvening(h, coin) == DayNightDefault(h)
\* the time-of-day default of src/unnamed/part_000 (four bands, morning coin)
FourBandDefault(h, coin) ==
    IF h >= MORNING_START_HOUR /\ h < AFTERNOON_START_HOUR
    THEN (IF coin THEN "snow" ELSE "rain")
    ELSE IF h >= AFTERNOON_START_HOUR /\ h < EVENING_START_HOUR
    THEN "sakura"
    ELSE IF h >= EVENING_START_HOUR /\ h < NIGHT_START_HOUR
    THEN "autumn"
    ELSE "fireflies"

TimeOfDayDefault(rev, h, coin) ==
    IF rev = "index_js" THEN DayNightDefault(h) ELSE FourBandDefault(h, coin)

getInitialWeatherModeUnchecked(rev, saved, h, coin) ==
    IF saved # NoItem /\ saved[1] # "" THEN saved[1] ELSE TimeOfDayDefault(rev, h, coin)

getInitialWeatherMode(rev, saved, h, coin) ==
    IF SavedIsValid(saved) THEN saved[1] ELSE TimeOfDayDefault(rev, h, coin)

\* the updater passed to setWeatherMode by toggleWeatherMode
NextModeFourModes(prevMode) ==
    LET four == <<"sakura", "fireflies", "snow", "rain">>
        currentIndex == IndexOf(four, prevMode)
        nextIndex == (currentIndex + 1) % Len(four)
    IN  four[nextIndex + 1]

NextMode(prevMode) ==
    LET currentIndex == IndexOf(WEATHER_MODES, prevMode)
        nextIndex == (currentIndex + 1) % Len(WEATHER_MODES)
    IN  WEATHER_MODES[nextIndex + 1]

setItemSkipped(item, mode) == item
\* `localStorage.setItem('weatherMode', weatherMode)` in the theme effect: the
\* item afterwards
setItem(item, mode) == <<mode>>

\* the two revisions of WeatherToggle found in the repository
ToggleRevisions == {"WeatherToggle_jsx", "part_014"}

\* weatherModesArray of WeatherToggle.jsx, WEATHER_MODES_ARRAY of part_014
weatherModesArray(rev) ==
    IF rev = "WeatherToggle_jsx"
    THEN <<"sakura", "fireflies", "snow", "rain">>
    ELSE <<"sakura", "fireflies", "snow", "rain", "autumn">>

\* nextModeKey of WeatherToggle: the mode named by the button's aria-label and
\* by its title `Switch to ...`
nextModeKey(rev, mode) ==
    LET arr == weatherModesArray(rev)
        validWeatherMode == IF rev = "part_014" /\ ~Includes(arr, mode) THEN arr[1] ELSE mode
        currentIndex == IndexOf(arr, validWeatherMode)
        nextIndex == (currentIndex + 1) % Len(arr)
    IN  arr[nextIndex + 1]

\* the switch of renderParticles: the component rendered inside the Canvas
renderParticles(mode) ==
    CASE mode = "sakura" -> "FloatingParticles"
      [] mode = "fireflies" -> "Fireflies"
      [] mode = "snow" -> "Snowfall"
      [] mode = "rain" -> "Rainfall"
      [] mode = "autumn" -> "AutumnLeaves"
      [] OTHER -> "null"

\* `const isEffectivelyDarkMode = weatherMode === 'fireflies'` at each render
DarkFromInitialGlobal(mode, initialMode) == initialMode = "fireflies"

DeriveDarkMode(mode, initialMode) == mode = "fireflies"

ThemeClass(dark) == IF dark THEN "dark-mode" ELSE "light-mode"
WeatherClass(mode) == "weather-" \o mode
AllWeatherClasses == {WeatherClass(WEATHER_MODES[k]) : k \in 1..Len(WEATHER_MODES)}

\* updateElementClasses(element) inside the theme effect
updateElementClasses(classes, mode, dark) ==
    ((classes \ AllWeatherClasses) \ {ThemeClass(~dark)})
        \cup {ThemeClass(dark), WeatherClass(mode)}

\* the dependency array of the theme effect: [weatherMode, isEffectivelyDarkMode]
ThemeEffectDepsDarkOnly(oldMode, oldDark, newMode, newDark) == oldDark # newDark

ThemeEffectDepsChanged(oldMode, oldDark, newMode, newDark) ==
    oldMode # newMode \/ oldDark # newDark

(***************************************************************************)
(* Effect Compositors                                                      *)
(*                                                                         *)
(* Grid: x and y in quarters of a world unit, z in twentieths, scale in    *)
(* 1/200, colour channels (red only) and other fractions in percent,       *)
(* Math.random() in quarters (0, 1/4, 1/2, 3/4).  `60 * delta` is the      *)
(* integer delta60; the fall-speed factors are in units that move a        *)
(* particle by 6..48 quarter units per tick, so that a particle crosses    *)
(* the viewport within a few ticks.                                        *)
(***************************************************************************)
\* "snow" is the Snowfall of part_003, "snow002" the Snowfall revision of
\* part_002 (same generator and frame step, different setup effect)
Species == {"sakura", "snow", "snow002", "leaves", "fireflies", "rain"}
FallingSpecies == {"sakura", "snow", "snow002", "leaves"}
SnowRevisions == {"snow", "snow002"}

\* host viewport (world units) as state.viewport / useThree().viewport give it
Viewports == {[width |-> 50, height |-> 10], [width |-> 100, height |-> 20]}
\* and a host viewport of 20 x 10 world units
GenViewports == Viewports \cup {[width |-> 20, height |-> 10]}
\* canvas size in pixels for a viewport (ten pixels per world unit)
SizeOf(vp) == [width |-> 10 * vp.width, height |-> 10 * vp.height]

\* values of `60 * delta` of a frame tick (delta = 0.1 s and 0.2 s)
Delta60s == {6, 12}

\* Math.random(): the n-th draw of the stream chosen by `seed`, in quarters
Seeds == {0, 1}
\* streams used where a field is generated for its own sake: between them
\* every draw takes each of its four values
GenSeeds == {0, 1, 2, 3}
Draw(seed, n) == ((seed + 1) * (n + 1) + (n \div 2)) % 4

Min(a, b) == IF a < b THEN a ELSE b
Max(a, b) == IF a > b THEN a ELSE b
Abs(a) == IF a < 0 THEN -a ELSE a
Sgn(a) == IF a < 0 THEN -1 ELSE IF a > 0 THEN 1 ELSE 0
\* Math.max(0, Math.min(1, c)) on a percent channel
Clamp01Off(c) == c
Clamp01(c) == Max(0, Min(100, c))

\* Math.sin / Math.cos sampled at quarter periods
SinTable == <<0, 1, 0, -1>>
SinAt(q) == SinTable[(q % 4) + 1]
CosAt(q) == SinTable[((q + 1) % 4) + 1]

\* red channel (percent) of the species palettes
sakuraColors == <<96, 91, 86, 85, 78, 75, 89, 79>>
snowflakeColors == <<100, 94, 90, 100>>
autumnMapleColors == <<88, 100, 96, 82, 90>>
autumnBirchColors == <<98, 98, 91, 83, 75>>
fireflyColors == <<68, 60, 80, 85>>
raindropColors == <<71, 74, 66, 76>>

\* the blue channels of the same palettes, in percent
sakuraColorsB == <<76, 66, 60, 63, 53, 49, 58, 47>>
snowflakeColorsB == <<100, 100, 100, 100>>
autumnMapleColorsB == <<8, 0, 14, 11, 2>>
autumnBirchColorsB == <<46, 33, 26, 22, 17>>
fireflyColorsB == <<18, 20, 0, 13>>
raindropColorsB == <<79, 81, 76, 83>>

\* Math.floor(Math.random() * palette.length)
PaletteIndex(r, palette) == ((r * Len(palette)) \div 4) + 1

\* RAIN_CONFIG passed by App, and the camera of the Canvas
RAIN_CONFIG ==
    [areaWidth |-> 50, areaHeight |-> 40, areaDepth |-> 40, windStrength |-> 4,
     fogNear |-> 20, fogFar |-> 50]
cameraZ == 12

\* default physics of InstancedFallingItems; sway factors in tenths
DefaultPhysics ==
    [scaleRange |-> <<16, 28>>, fallSpeedRange |-> <<1, 3>>,
     swayFactorRange |-> <<5, 10>>, rotSpeedRange |-> <<8, 18>>,
     initialDepthSpread |-> 16,
     initialHorizontalSpreadFactor |-> 18, initialVerticalSpreadFactor |-> 11,
     resetBoundaryOffset |-> 2, resetVerticalSpread |-> 3]
maplePhysics ==
    [scaleRange |-> <<18, 32>>, fallSpeedRange |-> <<1, 3>>,
     swayFactorRange |-> <<7, 12>>, rotSpeedRange |-> <<10, 20>>]
\* the `config` useMemo: defaults overridden by the physicsConfig prop
\* (maple passes maplePhysics, birch passes nothing)
MergeConfig(given) ==
    [k \in DOMAIN DefaultPhysics |->
        IF given /\ k \in DOMAIN maplePhysics THEN maplePhysics[k] ELSE DefaultPhysics[k]]

\* Math.random() calls per particle in each generator
DrawsPerParticle(sp) ==
    CASE sp \in {"sakura"} \cup SnowRevisions -> 17
      [] sp = "leaves" -> 19
      [] OTHER -> 11

\* Orientation is tracked by its Euler x angle, in milliradians; rotation
\* speeds are in quarter milliradians per 60*delta.  QuarterPi: a draw of
\* Math.random() * Math.PI is a multiple of pi/4.
QuarterPi == 785

\* FloatingParticles: one particle record of the `particles` useMemo
SakuraParticle(seed, i, vp) ==
    LET d(k) == Draw(seed, DrawsPerParticle("sakura") * i + k)
        sz == SizeOf(vp)
        initialViewportWidth ==
            IF sz.width > 0 THEN (sz.width * vp.height) \div sz.height ELSE 20
        initialViewportHeight == IF sz.height > 0 THEN vp.height ELSE 10
    IN  [x |-> ((d(0) - 2) * initialViewportWidth * 18) \div 10,
         y |-> ((d(1) - 2) * initialViewportHeight * 11) \div 10,
         z |-> (d(2) - 2) * 96,
         rot |-> d(3) * QuarterPi,
         scale |-> 16 + 3 * d(6),
         factorY |-> 1 + (d(7) \div 2),
         speedFactor |-> 1 + (d(8) \div 2),
         swayFactorX |-> ((d(9) - 2) * 7) \div 4,
         rotSpeedX |-> (d(10) - 2) * 15,
         color |-> Clamp01(sakuraColors[PaletteIndex(d(13), sakuraColors)] + 2 * (d(14) - 2)),
         colorB |-> Clamp01(sakuraColorsB[PaletteIndex(d(13), sakuraColors)]
                            + 2 * (d(16) - 2))]

SnowParticleTall(seed, i, vp) ==
    LET d(k) == Draw(seed, DrawsPerParticle("snow") * i + k)
    IN  [x |-> (d(0) - 2) * vp.width * 2, y |-> (d(1) - 2) * vp.height * 2,
         z |-> (d(2) - 2) * 90, scale |-> 160 + 35 * d(6), rot |-> 0, factorY |-> 1,
         speedFactor |-> 1, swayFactorX |-> 0, rotSpeedX |-> 0, color |-> 100,
         colorB |-> 100]
\* Snowfall: one particle record of the `particles` useMemo
SnowParticle(seed, i, vp) ==
    LET d(k) == Draw(seed, DrawsPerParticle("snow") * i + k)
        sz == SizeOf(vp)
        initialViewportWidth ==
            IF sz.width > 0 THEN (sz.width * vp.height) \div sz.height ELSE 20
        initialViewportHeight == IF sz.height > 0 THEN vp.height ELSE 10
    IN  [x |-> ((d(0) - 2) * initialViewportWidth * 18) \div 10,
         y |-> ((d(1) - 2) * initialViewportHeight * 12) \div 10,
         z |-> (d(2) - 2) * 90,
         rot |-> d(3) * QuarterPi,
         scale |-> 160 + 35 * d(6),
         factorY |-> 1 + (d(7) \div 2),
         speedFactor |-> 1 + (d(8) \div 2),
         swayFactorX |-> ((d(9) - 2) * 6) \div 4,
         rotSpeedX |-> (d(10) - 2) * 6,
         color |-> Clamp01(snowflakeColors[PaletteIndex(d(13), snowflakeColors)]
                           + ((d(14) - 2) * 5) \div 2),
         colorB |-> Clamp01(snowflakeColorsB[PaletteIndex(d(13), snowflakeColors)]
                            + ((d(14) - 2) * 5) \div 2)]

\* InstancedFallingItems: one particle record of the `particles` useMemo
LeafParticle(seed, i, config, colorPalette, colorPaletteB) ==
    LET d(k) == Draw(seed, DrawsPerParticle("leaves") * i + k)
        initialViewportWidth == 20
        initialViewportHeight == 10
        span(range) == range[2] - range[1]
    IN  [x |-> ((d(0) - 2) * initialViewportWidth * config.initialHorizontalSpreadFactor) \div 10,
         y |-> (d(1) * initialViewportHeight * config.initialVerticalSpreadFactor) \div 10
                   + (4 * initialViewportHeight) \div 10,
         z |-> (d(2) - 2) * config.initialDepthSpread * 6,
         rot |-> d(3) * QuarterPi,
         rotSpeedX |-> (d(12) - 2) * 2 * (config.rotSpeedRange[1]
                           + (d(11) * span(config.rotSpeedRange)) \div 4),
         scale |-> config.scaleRange[1] + (d(6) * span(config.scaleRange)) \div 4,
         speedFactor |-> config.fallSpeedRange[1] + (d(7) * span(config.fallSpeedRange)) \div 4,
         factorY |-> 1 + (d(8) \div 2),
         swayFactorX |-> ((d(9) - 2) * (config.swayFactorRange[1]
                             + (d(10) * span(config.swayFactorRange)) \div 4)) \div 2,
         color |-> Clamp01(colorPalette[PaletteIndex(d(15), colorPalette)] + 2 * (d(16) - 2)),
         colorB |-> Clamp01(colorPaletteB[PaletteIndex(d(15), colorPalette)]
                            + 2 * (d(18) - 2))]

\* Fireflies: one particle record of the `particles` useMemo
FireflyParticle(seed, i, vp) ==
    LET d(k) == Draw(seed, DrawsPerParticle("fireflies") * i + k)
        viewportWidth == IF vp.width # 0 THEN vp.width ELSE 15
        viewportHeight == IF vp.height # 0 THEN vp.height ELSE 10
        x == ((d(0) - 2) * viewportWidth * 15) \div 10
        y == ((d(1) - 2) * viewportHeight * 12) \div 10
        z == (d(2) - 2) * 50
    IN  [x |-> x, y |-> y, z |-> z,
         scale |-> 160 + 30 * d(3),
         driftSpeed |-> 1 + (d(4) \div 2),
         driftDirection |-> <<Sgn(d(5) - 2), Sgn(d(6) - 2), Sgn(d(7) - 2)>>,
         phase |-> d(8),
         flickerSpeed |-> 1 + (d(9) \div 2),
         color |-> fireflyColors[PaletteIndex(d(10), fireflyColors)],
         colorB |-> fireflyColorsB[PaletteIndex(d(10), fireflyColors)],
         currentPosition |-> <<x, y, z>>]

\* Rainfall: one particle record of the `particles` useMemo
RainParticle(seed, i) ==
    LET d(k) == Draw(seed, DrawsPerParticle("rain") * i + k)
        scale == 80 + 25 * d(3)
    IN  [x |-> (d(0) - 2) * RAIN_CONFIG.areaWidth,
         y |-> d(1) * RAIN_CONFIG.areaHeight,
         z |-> (d(2) - 2) * RAIN_CONFIG.areaDepth * 5,
         scale |-> scale,
         speedFactor |-> 1 + (d(5) \div 2),
         depthSpeedFactor |-> 1 + (d(2) \div 2),
         windInfluence |-> ((200 - scale) * (80 + 10 * d(6))) \div 200,
         phase |-> d(8),
         color |-> raindropColors[PaletteIndex(d(9), raindropColors)],
         colorB |-> raindropColorsB[PaletteIndex(d(9), raindropColors)],
         alphaFactor |-> 70 + (30 * d(10)) \div 4]

\* the particle field a species generates for (count, viewport, config)
GenerateField(sp, n, seed, vp, given) ==
    [k \in 1..n |->
        CASE sp = "sakura" -> SakuraParticle(seed, k - 1, vp)
          [] sp \in SnowRevisions -> SnowParticle(seed, k - 1, vp)
          [] sp = "fireflies" -> FireflyParticle(seed, k - 1, vp)
          [] sp = "rain" -> RainParticle(seed, k - 1)
          [] OTHER -> LeafParticle(seed, k - 1, MergeConfig(given),
                                   IF given THEN autumnMapleColors ELSE autumnBirchColors,
                                   IF given THEN autumnMapleColorsB ELSE autumnBirchColorsB)]

\* dependency array of the `particles` useMemo, as values; cfg is the identity
\* of the memoized `config` object
ParticlesDeps(sp, n, vp, cfg) ==
    CASE sp = "sakura" -> <<n, vp.height, SizeOf(vp).width, SizeOf(vp).height>>
      [] sp \in SnowRevisions -> <<n, vp.height, vp.width, SizeOf(vp).width, SizeOf(vp).height>>
      [] sp = "fireflies" -> <<n, vp.height, vp.width>>
      [] sp = "rain" -> <<n, RAIN_CONFIG.areaWidth, RAIN_CONFIG.areaHeight,
                          RAIN_CONFIG.areaDepth>>
      [] OTHER -> <<n, cfg>>

\* whether the component subscribes to the R3F store (useThree()) and so
\* renders again when the store changes
UsesThreeStore(sp) == sp \in {"sakura", "snow", "snow002", "fireflies", "rain"}

\* whether the compositor registers an effect whose cleanup disposes the geometry
HasDisposalEffect(sp) == sp \in {"sakura", "snow", "leaves", "rain", "fog"}

\* the geometry and colorPalette props of InstancedFallingItems: AutumnLeaves
\* passes both; a caller may leave one out or pass an empty palette
GoodProps == [geometry |-> TRUE, colorPalette |-> "given"]
LeafPropsChoices ==
    {GoodProps,
     [geometry |-> FALSE, colorPalette |-> "given"],
     [geometry |-> TRUE, colorPalette |-> "missing"],
     [geometry |-> TRUE, colorPalette |-> "empty"]}

\* the guard at the top of the `particles` useMemo of InstancedFallingItems:
\* `if (!geometry || !colorPalette || colorPalette.length === 0) return []`
GeneratorBails(sp, props) ==
    sp = "leaves" /\ (~props.geometry \/ props.colorPalette # "given")

\* the value of the `particles` useMemo
ParticlesMemo(sp, props, n, seed, vp, given) ==
    IF GeneratorBails(sp, props) THEN <<>> ELSE GenerateField(sp, n, seed, vp, given)

\* `if (!geometry || count <= 0) return null`: no instancedMesh is rendered
RendersNull(sp, props, n) == sp = "leaves" /\ (~props.geometry \/ n <= 0)

\* an instance slot of mesh.instanceMatrix (position and uniform scale);
\* a new InstancedMesh starts with every slot blank
BlankSlot == [x |-> 0, y |-> 0, z |-> 0, s |-> 0, rot |-> 0]
NoColorAttribute == <<>>
NoWind == [dirX |-> 0, dirZ |-> 0, noiseTime |-> 0]

LogEntry(ev, i) == [ev |-> ev, i |-> i]

\* the readiness guard at the top of each useFrame callback: TRUE when the
\* callback returns at once
FrameGuardReturns(sp, attached, mc, n, parts, colAttr) ==
    CASE sp = "leaves" -> ~attached \/ Len(parts) = 0 \/ mc # n
      [] sp = "rain" -> ~attached \/ colAttr = NoColorAttribute \/ Len(parts) = 0
      [] OTHER -> ~attached \/ Len(parts) = 0

\* upper bound of the per-instance loop
LoopBoundShort(sp, n, mc) == n - 1
LoopBound(sp, n, mc) == IF sp = "leaves" THEN mc ELSE n

\* `if (tempObject.position.y < boundaryY)`
BelowBoundaryNever(y, boundaryY) == FALSE
BelowBoundary(y, boundaryY) == y < boundaryY

\* topEdge and the reset boundary of a falling species, in quarter units
TopEdge(vp) == 2 * vp.height
BoundaryY(sp, vp, config) ==
    -TopEdge(vp) - 4 * (IF sp = "leaves" THEN config.resetBoundaryOffset ELSE 2)

FallenYStalled(sp, p, slot, delta60) == slot.y
\* y after the fall of one tick, before the boundary check
FallenY(sp, p, slot, delta60) ==
    LET dt60 == IF sp = "leaves" THEN Min(delta60, 6) ELSE delta60
    IN  slot.y - p.factorY * p.speedFactor * dt60

\* x after the sway of one tick
SwayedX(sp, p, slot, i, time, delta60) ==
    LET dt60 == IF sp = "leaves" THEN Min(delta60, 6) ELSE delta60
        s == CASE sp = "sakura" -> SinAt((time \div 12) + i)
               [] sp \in SnowRevisions -> SinAt((time \div 18) + i)
               [] OTHER -> SinAt((time \div 12) + 2 * i)
        divisor == IF sp = "sakura" THEN 30 ELSE 20
    IN  slot.x + (s * p.swayFactorX * p.speedFactor * dt60) \div divisor

\* the rotation increment of one tick of a falling species
TickedRot(sp, p, slot, delta60) ==
    LET dt60 == IF sp = "leaves" THEN Min(delta60, 6) ELSE delta60
    IN  slot.rot + (p.rotSpeedX * dt60) \div 24

\* the rotation part of the reset branch: InstancedFallingItems slerps the
\* orientation a tenth of the way to a random one (x angle r3 * pi/8), the
\* others leave it alone
ResetRotation(sp, rot, r3) ==
    IF sp = "leaves" THEN rot + ((r3 * QuarterPi) \div 2 - rot) \div 10 ELSE rot

\* the respawn position of a falling species; r0, r1, r2 are the draws of the
\* reset in program order (y, x, z)
ResetSlot(sp, slot, vp, config, r0, r1, r2) ==
    [x |-> CASE sp = "leaves" ->
                  ((r1 - 2) * vp.width * config.initialHorizontalSpreadFactor * 9) \div 100
             [] OTHER -> ((r1 - 2) * vp.width * 16) \div 10,
     y |-> TopEdge(vp) + 4
              + (IF sp = "leaves" THEN r0 * config.resetVerticalSpread ELSE r0 * 3),
     z |-> CASE sp = "sakura" -> (r2 - 2) * 75
             [] sp \in SnowRevisions -> (r2 - 2) * 80
             [] OTHER -> (r2 - 2) * config.initialDepthSpread * 5,
     s |-> slot.s,
     rot |-> slot.rot]

\* one pass of the loop body of a falling species for instance i
StepFalling(sp, p, slot, i, env) ==
    LET y1 == FallenY(sp, p, slot, env.delta60)
        x1 == SwayedX(sp, p, slot, i, env.time, env.delta60)
        r(k) == Draw(env.seed, 6 * i + k)
        rot1 == TickedRot(sp, p, slot, env.delta60)
        below == BelowBoundary(y1, BoundaryY(sp, env.viewport, env.config))
    IN  [slot |-> IF below
                  THEN [ResetSlot(sp, slot, env.viewport, env.config, r(0), r(1), r(2))
                           EXCEPT !.rot = ResetRotation(sp, rot1, r(3))]
                  ELSE [x |-> x1, y |-> y1, z |-> slot.z, s |-> slot.s, rot |-> rot1],
         particle |-> p,
         color |-> <<>>,
         reset |-> below]

DriftedFireflyDimmed(p, pos, dir) ==
    [p EXCEPT !.currentPosition = pos, !.driftDirection = dir,
              !.color = (p.color * 7) \div 10]
\* what the loop body of Fireflies stores in the particle record: the drifted
\* position and, after a wobble, the new drift direction
DriftedFirefly(p, pos, dir) ==
    [p EXCEPT !.currentPosition = pos, !.driftDirection = dir]

\* one pass of the loop body of Fireflies for instance i
StepFirefly(p, slot, i, env) ==
    LET r(k) == Draw(env.seed, 7 * i + k)
        vp == env.viewport
        boundaryX == (vp.width * 26) \div 10
        boundaryY == (vp.height * 26) \div 10
        boundaryZ == 240
        driftAmount == p.driftSpeed * env.delta60
        x1 == slot.x + p.driftDirection[1] * driftAmount
        y1 == slot.y + p.driftDirection[2] * driftAmount
        z1 == slot.z + p.driftDirection[3] * driftAmount * 5
        wobble == r(0) = 0
        dir == IF wobble
               THEN <<Sgn(2 * p.driftDirection[1] + (r(1) - 2)),
                      Sgn(2 * p.driftDirection[2] + (r(2) - 2)),
                      Sgn(2 * p.driftDirection[3] + (r(3) - 2))>>
               ELSE p.driftDirection
        pulse == 50 * (SinAt((env.time \div 6) * p.flickerSpeed + p.phase) + 1)
        currentScale == (p.scale * (60 + (pulse * 80) \div 100)) \div 100
        outside == Abs(x1) > boundaryX \/ Abs(y1) > boundaryY \/ Abs(z1) > boundaryZ
        edge == r(4)
        resetX == CASE edge = 0 -> (-boundaryX * 95) \div 100
                    [] edge = 1 -> (boundaryX * 95) \div 100
                    [] OTHER -> ((r(5) - 2) * vp.width * 11) \div 10
        resetY == CASE edge \in {0, 1} -> ((r(5) - 2) * vp.height * 11) \div 10
                    [] edge = 2 -> (-boundaryY * 95) \div 100
                    [] OTHER -> (boundaryY * 95) \div 100
        pos == IF outside THEN <<resetX, resetY, (r(6) - 2) * 40>> ELSE <<x1, y1, z1>>
    IN  [slot |-> [x |-> pos[1], y |-> pos[2], z |-> pos[3], s |-> currentScale,
                   rot |-> slot.rot],
         particle |-> DriftedFirefly(p, pos, dir),
         color |-> IF env.hasColor
                   THEN <<(p.color * (70 + (pulse * 60) \div 100)) \div 100>>
                   ELSE <<>>,
         reset |-> outside]

\* THREE.MathUtils.smoothstep(x, min, max), in percent
Smoothstep(x, lo, hi) ==
    IF x <= lo THEN 0
    ELSE IF x >= hi THEN 100
    ELSE LET t == ((x - lo) * 100) \div (hi - lo)
         IN  (t * t * (300 - 2 * t)) \div 1000000

\* the wind update at the top of the Rainfall frame callback
WindUpdate(wind, delta60) ==
    LET noiseTime == wind.noiseTime + delta60
        noiseX == (SinAt(noiseTime \div 6) + SinAt(noiseTime \div 4)) * 50
        noiseZ == (CosAt(noiseTime \div 8) + CosAt(noiseTime \div 5)) * 50
        targetWindX == (noiseX * RAIN_CONFIG.windStrength) \div 100
        targetWindZ == (noiseZ * RAIN_CONFIG.windStrength * 3) \div 1000
    IN  [dirX |-> wind.dirX + ((targetWindX - wind.dirX) * delta60) \div 120,
         dirZ |-> wind.dirZ + ((targetWindZ - wind.dirZ) * delta60) \div 120,
         noiseTime |-> noiseTime]

\* one pass of the loop body of Rainfall for instance i (the wobble of at most
\* 0.015 world units is below the grid and left out, and so is the tilt of
\* the streak, which follows the wind)
StepRain(p, slot, i, env) ==
    LET r(k) == Draw(env.seed, 3 * i + k)
        windX == env.wind.dirX
        windZ == env.wind.dirZ
        fallSpeed == p.speedFactor * p.depthSpeedFactor * env.delta60
        windForceX == (windX * p.windInfluence * env.delta60 * 8) \div 30000
        windForceZ == (windZ * p.windInfluence * env.delta60 * 40) \div 30000
        x1 == slot.x + windForceX
        y1 == slot.y - fallSpeed
        z1 == slot.z + windForceZ
        distanceZ == Abs(z1 - 20 * cameraZ)
        fadeFactor == Smoothstep(distanceZ, 20 * RAIN_CONFIG.fogNear, 20 * RAIN_CONFIG.fogFar)
        effectiveBrightness == ((100 - fadeFactor \div 2) * p.alphaFactor) \div 100
        worldYTop == 4 * RAIN_CONFIG.areaHeight
        worldYBottom == -20
        worldXMin == -2 * RAIN_CONFIG.areaWidth
        worldZMin == -10 * RAIN_CONFIG.areaDepth
        below == y1 < worldYBottom
    IN  [slot |-> IF below
                  THEN [x |-> worldXMin + r(1) * RAIN_CONFIG.areaWidth - (windX * 20) \div 100,
                        y |-> worldYTop + 5 * r(0),
                        z |-> worldZMin + r(2) * RAIN_CONFIG.areaDepth * 5 - windZ,
                        s |-> slot.s, rot |-> slot.rot]
                  ELSE [x |-> x1, y |-> y1, z |-> z1, s |-> slot.s, rot |-> slot.rot],
         particle |-> p,
         color |-> <<(p.color * effectiveBrightness) \div 100>>,
         reset |-> below]

(***************************************************************************)
(* FogVolume.  The drift speeds are in units that carry a particle across  *)
(* a face of the volume within a few ticks.                                *)
(***************************************************************************)
FOG_SPREAD_X == 35
FOG_SPREAD_Y == 8
FOG_SPREAD_Z == 35
FogDraws == 19

\* FogVolume: one particle record of the `particles` useMemo
FogParticle(seed, i, vp) ==
    LET d(k) == Draw(seed, FogDraws * i + k)
        sz == SizeOf(vp)
        initialViewportWidth ==
            IF sz.width > 0 THEN (sz.width * vp.height) \div sz.height ELSE FOG_SPREAD_X
        spreadX == Max(FOG_SPREAD_X, (initialViewportWidth * 8) \div 10)
    IN  [x |-> (d(0) - 2) * spreadX,
         y |-> ((10 * d(1) - 32) * FOG_SPREAD_Y) \div 10,
         z |-> (d(2) - 2) * FOG_SPREAD_Z * 5,
         rot |-> 2 * d(3) * QuarterPi,
         scale |-> 300 + 90 * d(6),
         speedFactor |-> (1 + d(7) \div 2) * (IF d(8) <= 1 THEN -1 ELSE 1),
         swayFactorX |-> (d(9) - 2) * 2,
         swayFactorZ |-> (d(10) - 2) * 2,
         timeOffsetX |-> d(11),
         timeOffsetZ |-> d(12),
         rotSpeedX |-> (d(13) - 2) * 5,
         color |-> Clamp01(82 + 2 * (d(16) - 2)),
         colorB |-> Clamp01(85 + 2 * (d(18) - 2))]

\* the faces of the fog volume: quarter units for x and y, twentieths for z
FogHalfSpreadX == 2 * FOG_SPREAD_X
FogHalfSpreadZ == 10 * FOG_SPREAD_Z
FogTopBoundary == 2 * FOG_SPREAD_Y
FogBottomBoundary == -6 * FOG_SPREAD_Y

\* position of a fog instance after the drift of one tick, before the
\* boundary checks
FogMoved(p, slot, env) ==
    [x |-> slot.x + SinAt(env.time \div 6 + p.timeOffsetX) * p.swayFactorX * env.delta60,
     y |-> slot.y + p.speedFactor * env.delta60,
     z |-> slot.z + CosAt(env.time \div 6 + p.timeOffsetZ) * p.swayFactorZ * env.delta60 * 5]

WrapAxisSameSide(v, half, r) == Sgn(v) * ((half * (360 + 10 * r)) \div 400)
\* `Math.sign(v) * -half * (0.9 + Math.random() * 0.1)`
WrapAxis(v, half, r) == Sgn(v) * (-1) * ((half * (360 + 10 * r)) \div 400)

\* one pass of the loop body of FogVolume for instance i
StepFog(p, slot, i, env) ==
    LET r(k) == Draw(env.seed, 3 * i + k)
        moved == FogMoved(p, slot, env)
        outY == moved.y < FogBottomBoundary \/ moved.y > FogTopBoundary
        outX == moved.x < -FogHalfSpreadX \/ moved.x > FogHalfSpreadX
        outZ == moved.z < -FogHalfSpreadZ \/ moved.z > FogHalfSpreadZ
    IN  [slot |-> [x |-> IF outX THEN WrapAxis(moved.x, FogHalfSpreadX, r(1)) ELSE moved.x,
                   y |-> IF outY
                         THEN (IF p.speedFactor > 0 THEN FogBottomBoundary + r(0)
                               ELSE FogTopBoundary - r(0))
                         ELSE moved.y,
                   z |-> IF outZ THEN WrapAxis(moved.z, FogHalfSpreadZ, r(2)) ELSE moved.z,
                   s |-> slot.s,
                   rot |-> slot.rot + (p.rotSpeedX * env.delta60) \div 4],
         particle |-> p,
         color |-> <<>>,
         reset |-> outX \/ outY \/ outZ]

StepParticle(sp, p, slot, i, env) ==
    CASE sp = "fireflies" -> StepFirefly(p, slot, i, env)
      [] sp = "rain" -> StepRain(p, slot, i, env)
      [] sp = "fog" -> StepFog(p, slot, i, env)
      [] OTHER -> StepFalling(sp, p, slot, i, env)

\* the buffer writes of one pass of the loop body, in program order
StepEntriesFlagEach(i, st) ==
    (IF st.color # <<>> THEN <<LogEntry("col", i)>> ELSE <<>>)
        \o <<LogEntry("mat", i), LogEntry("matFlag", -1)>>
StepEntries(i, st) ==
    (IF st.color # <<>> THEN <<LogEntry("col", i)>> ELSE <<>>) \o <<LogEntry("mat", i)>>

\* the flag sets after the loop; any is TRUE when the loop body ran at least once
FlagEntries(sp, any, hasColor) ==
    (IF sp \in {"fireflies", "snow002"} \/ any THEN <<LogEntry("matFlag", -1)>> ELSE <<>>)
        \o (IF (sp = "fireflies" /\ hasColor) \/ (sp = "rain" /\ any)
            THEN <<LogEntry("colFlag", -1)>> ELSE <<>>)

\* the per-instance loop `for (i = 0; i < bound; i++)`; acc carries the
\* buffers, the particle array and the log
RECURSIVE FrameLoop(_, _, _, _, _)
FrameLoop(sp, i, bound, env, acc) ==
    IF i >= bound THEN acc
    ELSE IF i + 1 > Len(acc.parts) THEN FrameLoop(sp, i + 1, bound, env, acc)
    ELSE LET st == StepParticle(sp, acc.parts[i + 1], acc.mat[i + 1], i, env)
         IN  FrameLoop(sp, i + 1, bound, env,
                 [mat |-> [acc.mat EXCEPT ![i + 1] = st.slot],
                  col |-> IF st.color # <<>> /\ i + 1 <= Len(acc.col)
                          THEN [acc.col EXCEPT ![i + 1] = st.color[1]]
                          ELSE acc.col,
                  parts |-> [acc.parts EXCEPT ![i + 1] = st.particle],
                  log |-> acc.log \o StepEntries(i, st),
                  reset |-> IF st.reset THEN acc.reset \cup {i} ELSE acc.reset,
                  any |-> TRUE])

\* the matrix the setup effect composes for a particle
InitialSlot(p) ==
    [x |-> p.x, y |-> p.y, z |-> p.z, s |-> p.scale,
     rot |-> IF "rot" \in DOMAIN p THEN p.rot ELSE 0]

\* the setup effect: initial transforms and colours of every instance
SetupSlots(parts, n, mat) ==
    [k \in 1..Len(mat) |->
        IF k <= n /\ k <= Len(parts)
        THEN InitialSlot(parts[k])
        ELSE mat[k]]
SetupColorsZero(parts, n) == [k \in 1..n |-> 0]
SetupColors(parts, n) ==
    [k \in 1..n |-> IF k <= Len(parts) THEN parts[k].color ELSE 0]
SetupLog(n) ==
    [k \in 1..(2 * n) |-> IF k % 2 = 1 THEN LogEntry("mat", (k - 1) \div 2)
                          ELSE LogEntry("col", (k - 1) \div 2)]
        \o <<LogEntry("matFlag", -1), LogEntry("colFlag", -1)>>

\* The colour-attribute branch of the setup effect.  attr is the attribute
\* found on the geometry (<<>> or <<array>>), local the colours of the new
\* field.  created: a new attribute was installed; flagged: needsUpdate was
\* set on it; threw: the write raised (TypedArray.prototype.set with a source
\* longer than the target raises a RangeError).
\*   snow002: a missing attribute is created, an existing one is always
\*            written in place with copyArray (array.set)
\*   fireflies: replaced when missing or of another count, and then not flagged
\*   others:  replaced when missing or of another length, then written, flagged
SetupColorAttribute(sp, attr, parts, n) ==
    LET local == SetupColors(parts, n)
        exists == attr # NoColorAttribute
        old == IF exists THEN attr[1] ELSE <<>>
    IN  CASE sp = "snow002" ->
               IF ~exists
               THEN [attr |-> <<local>>, created |-> TRUE, flagged |-> FALSE, threw |-> FALSE]
               ELSE IF Len(local) > Len(old)
               THEN [attr |-> attr, created |-> FALSE, flagged |-> FALSE, threw |-> TRUE]
               ELSE [attr |-> <<[k \in 1..Len(old) |->
                                    IF k <= Len(local) THEN local[k] ELSE old[k]]>>,
                     created |-> FALSE, flagged |-> TRUE, threw |-> FALSE]
          [] sp = "fireflies" ->
               [attr |-> <<local>>, created |-> ~exists \/ Len(old) # n,
                flagged |-> exists /\ Len(old) = n, threw |-> FALSE]
          [] OTHER ->
               [attr |-> <<local>>, created |-> ~exists \/ Len(old) # n,
                flagged |-> TRUE, threw |-> FALSE]

\* the writes and flag sets of one run of the setup effect, in program order;
\* res is the outcome of its colour-attribute branch
SetupLogFor(sp, n, res) ==
    LET mats == [k \in 1..n |-> LogEntry("mat", k - 1)]
        cols == [k \in 1..n |-> LogEntry("col", k - 1)]
        pairs == SubSeq(SetupLog(n), 1, 2 * n)
        new == IF res.created THEN <<LogEntry("colNew", -1)>> ELSE <<>>
        colFlag == IF res.flagged THEN <<LogEntry("colFlag", -1)>> ELSE <<>>
    IN  CASE sp = "fireflies" ->
               cols \o new \o colFlag \o mats \o <<LogEntry("matFlag", -1)>>
          [] sp = "snow002" ->
               IF res.threw THEN pairs \o <<LogEntry("throw", -1)>>
               ELSE pairs \o new \o colFlag \o <<LogEntry("matFlag", -1)>>
          [] OTHER ->
               new \o pairs \o <<LogEntry("matFlag", -1)>> \o colFlag

VARIABLES
    strictMode,       \* whether React.StrictMode replays effects in this tree
    leafProps,        \* leaves: the geometry and colorPalette props as passed
    species,          \* mounted compositor, or "none"
    count,            \* its `count` prop
    prevCount,        \* history: `count` before the last change of it, or -1
    physicsGiven,     \* leaves: whether a physicsConfig prop is passed
    compPhase,        \* "none" | "committed" (effects pending) | "active" |
                      \* "unmounted" | "crashed" (an effect threw)
    meshAttached,     \* meshRef.current is an InstancedMesh
    meshCount,        \* mesh.count
    viewport,         \* host viewport
    particles,        \* the memoized particle array
    fieldId,          \* identity of that array: fields generated since mount
    configId,         \* identity of the memoized `config` object (leaves)
    particlesDeps,    \* dependencies stored by the `particles` useMemo
    setupRuns,        \* runs of the setup effect since mount
    matBuf,           \* mesh.instanceMatrix, one slot per instance
    colorAttr,        \* the 'color' attribute: <<>> or <<array>>
    matNeedsUpdate,   \* instanceMatrix.needsUpdate has been set
    colNeedsUpdate,   \* colorAttribute.needsUpdate has been set
    windEffect,       \* rain: the windEffect ref
    geomCreated,      \* geometries this compositor created for its shape
    disposeCalls,     \* calls of geometry.dispose() for this compositor
    frames,           \* frame ticks delivered since mount
    time,             \* state.clock.elapsedTime, in delta60 units
    lastOp,           \* the operation that ran last
    opLog,            \* buffer writes and flag sets of that operation, in order
    frameIn           \* inputs and outcome of the last frame tick

compVars == <<strictMode, leafProps, species, count, prevCount, physicsGiven, compPhase, meshAttached,
              meshCount, viewport, particles, fieldId, configId, particlesDeps,
              setupRuns, matBuf, colorAttr, matNeedsUpdate, colNeedsUpdate,
              windEffect, geomCreated, disposeCalls, frames, time, lastOp, opLog,
              frameIn>>

NoViewport == [width |-> 0, height |-> 0]
NoFrame == [delta60 |-> 0, seed |-> 0, viewport |-> NoViewport, ran |-> FALSE,
            reset |-> {}, setupRunsBefore |-> 0]

VARIABLES
    appRevision,              \* which App revision is deployed
    storedWeatherMode,        \* localStorage item 'weatherMode'
    pagePhase,                \* "closed" | "mounted" (effects pending) | "ready" |
                              \* "crashed" (React unmounted the root)
    currentHour,              \* new Date().getHours() read at cold start
    initialWeatherModeGlobal, \* module-level constant computed at load
    weatherMode,              \* React state of App
    isEffectivelyDarkMode,    \* derived at the last render of App
    bodyClasses,              \* document.body.classList
    appClasses,               \* classList of the .app container
    modeTrace,                \* history: modes of this page session, in order
    prevSession,              \* history: [mode, persisted] of the session closed last
    isLoading,                \* React state of App: the loading screen is up
    particleEffect,           \* what the Canvas shows of the active effect:
                              \* "none" | "pending" (lazy import) | "rendered" | "failed"
    particleFailure           \* history: kind of the last failure of the effect

ctlVars == <<appRevision, storedWeatherMode, pagePhase, currentHour,
             initialWeatherModeGlobal, weatherMode, isEffectivelyDarkMode,
             bodyClasses, appClasses, modeTrace, prevSession, isLoading,
             particleEffect, particleFailure>>

VARIABLES
    isExiting,        \* Loading: React state, the exit animation has started
    isHidden,         \* Loading: React state, the component renders nothing
    hideTimer,        \* Loading: the timeout of the effect run that ran last:
                      \* "none" | "armed" | "cleared" | "fired"
    loadingDeps       \* Loading: [isLoading, isExiting] of the last effect run,
                      \* <<>> before the first

loadVars == <<isExiting, isHidden, hideTimer, loadingDeps>>

VARIABLES
    totalCount,       \* AutumnLeaves: the totalCount prop, -1 when not mounted
    counts,           \* AutumnLeaves: the `counts` memo
    leafPhase,        \* per leaf kind: "none" | "committed" | "active"
    leafParts,        \* per leaf kind: the `particles` memo of its compositor
    leafMat,          \* per leaf kind: mesh.instanceMatrix of its compositor
    leafFrames,       \* per leaf kind: frame ticks delivered
    leafClock,        \* state.clock.elapsedTime of the shared Canvas
    scratch,          \* the module-level tempObject, tempEuler and resetQuat
    leafOp            \* history: the handler that ran last and its inputs

autumnVars == <<totalCount, counts, leafPhase, leafParts, leafMat, leafFrames,
                leafClock, scratch, leafOp>>

vars == <<ctlVars, compVars, loadVars, autumnVars>>

LeafKinds == {"maple", "oak", "birch"}
NoCounts == [maple |-> 0, oak |-> 0, birch |-> 0]
\* a new Object3D / Euler / Quaternion: origin, no rotation, unit scale
FreshScratch ==
    [tempObject |-> [x |-> 0, y |-> 0, z |-> 0, s |-> 200, rot |-> 0],
     tempEuler |-> 0, resetQuat |-> 0]
NoLeafOp == [op |-> "none", kind |-> "none", delta60 |-> 0, seed |-> 0, time |-> 0]

\* no AutumnLeaves mounted; the module scope holds new scratch objects
InitAutumn ==
    /\ totalCount = -1
    /\ counts = NoCounts
    /\ leafPhase = [k \in LeafKinds |-> "none"]
    /\ leafParts = [k \in LeafKinds |-> <<>>]
    /\ leafMat = [k \in LeafKinds |-> <<>>]
    /\ leafFrames = [k \in LeafKinds |-> 0]
    /\ leafClock = 0
    /\ scratch = FreshScratch
    /\ leafOp = NoLeafOp

\* the Loading component as mounted: useState(false) twice, no effect run yet
InitLoading ==
    /\ isExiting = FALSE
    /\ isHidden = FALSE
    /\ hideTimer = "none"
    /\ loadingDeps = <<>>

\* the same, as the next-state values of a mount or of a closed page
LoadingReset ==
    /\ isExiting' = FALSE
    /\ isHidden' = FALSE
    /\ hideTimer' = "none"
    /\ loadingDeps' = <<>>

NoSession == [mode |-> "none", persisted |-> FALSE, toggles |-> 0]

\* no compositor mounted
InitComp ==
    /\ leafProps = GoodProps
    /\ species = "none"
    /\ count = 0
    /\ prevCount = -1
    /\ physicsGiven = FALSE
    /\ compPhase = "none"
    /\ meshAttached = FALSE
    /\ meshCount = 0
    /\ viewport = NoViewport
    /\ particles = <<>>
    /\ fieldId = 0
    /\ configId = 0
    /\ particlesDeps = <<>>
    /\ setupRuns = 0
    /\ matBuf = <<>>
    /\ colorAttr = NoColorAttribute
    /\ matNeedsUpdate = FALSE
    /\ colNeedsUpdate = FALSE
    /\ windEffect = NoWind
    /\ geomCreated = 0
    /\ disposeCalls = 0
    /\ frames = 0
    /\ time = 0
    /\ lastOp = "none"
    /\ opLog = <<>>
    /\ frameIn = NoFrame

InitCtl ==
    /\ appRevision \in AppRevisions
    /\ storedWeatherMode \in StoredValues
    /\ pagePhase = "closed"
    /\ currentHour = 0
    /\ initialWeatherModeGlobal = "none"
    /\ weatherMode = "none"
    /\ isEffectivelyDarkMode = FALSE
    /\ bodyClasses = {}
    /\ appClasses = {}
    /\ modeTrace = <<>>
    /\ prevSession = NoSession
    /\ isLoading = TRUE
    /\ particleEffect = "none"
    /\ particleFailure = "none"
    /\ InitComp
    /\ InitAutumn
    /\ InitLoading
    /\ strictMode = TRUE

\* Page load: the module computes initialWeatherModeGlobal and App renders once.
ColdStart ==
    /\ pagePhase = "closed"
    /\ \E h \in Hours, coin \in BOOLEAN :
        LET initial == getInitialWeatherMode(appRevision, storedWeatherMode, h, coin)
            dark == DeriveDarkMode(initial, initial)
        IN  /\ currentHour' = h
            /\ initialWeatherModeGlobal' = initial
            /\ weatherMode' = initial
            /\ isEffectivelyDarkMode' = dark
            /\ appClasses' = {"app", ThemeClass(initial = "fireflies"), WeatherClass(initial)}
            /\ modeTrace' = <<initial>>
    /\ bodyClasses' = {}
    /\ pagePhase' = "mounted"
    /\ isLoading' = TRUE
    /\ particleEffect' = "pending"
    /\ particleFailure' = "none"
    /\ UNCHANGED <<appRevision, storedWeatherMode, prevSession>>
    /\ LoadingReset
    /\ UNCHANGED <<compVars, autumnVars>>

\* The effects of the first commit: the effect of Loading keyed on
\* [isLoading, isExiting] (isLoading is true: nothing to do) and the
\* theme/weather effect of App.
MountEffects ==
    /\ pagePhase = "mounted"
    /\ bodyClasses' = (bodyClasses \ {ThemeClass(~isEffectivelyDarkMode)})
                          \cup {ThemeClass(isEffectivelyDarkMode)}
    /\ appClasses' = updateElementClasses(appClasses, weatherMode, isEffectivelyDarkMode)
    /\ storedWeatherMode' = setItem(storedWeatherMode, weatherMode)
    /\ pagePhase' = "ready"
    /\ UNCHANGED <<appRevision, currentHour, initialWeatherModeGlobal, weatherMode,
                   isEffectivelyDarkMode, modeTrace, prevSession, isLoading,
                   particleEffect, particleFailure>>
    /\ loadingDeps' = <<isLoading, isExiting>>
    /\ UNCHANGED <<isExiting, isHidden, hideTimer>>
    /\ UNCHANGED <<compVars, autumnVars>>

\* A click on the toggle: state update, re-render, and the theme effect of that
\* render (React flushes the effects of a discrete event synchronously).  The
\* Canvas swaps the effect component: the new one is lazy and suspends.
toggleWeatherMode ==
    /\ pagePhase = "ready"
    /\ Len(modeTrace) - 1 < MaxToggles
    /\ LET nextMode == NextMode(weatherMode)
           dark == DeriveDarkMode(nextMode, initialWeatherModeGlobal)
           run == ThemeEffectDepsChanged(weatherMode, isEffectivelyDarkMode, nextMode, dark)
       IN  /\ weatherMode' = nextMode
           /\ isEffectivelyDarkMode' = dark
           /\ modeTrace' = Append(modeTrace, nextMode)
           /\ bodyClasses' = IF run
                             THEN (bodyClasses \ {ThemeClass(~dark)}) \cup {ThemeClass(dark)}
                             ELSE bodyClasses
           /\ appClasses' = IF run
                            THEN updateElementClasses(appClasses, nextMode, dark)
                            ELSE appClasses
           /\ storedWeatherMode' = IF run THEN setItem(storedWeatherMode, nextMode)
                                   ELSE storedWeatherMode
    /\ particleEffect' = "pending"
    /\ particleFailure' = "none"
    /\ UNCHANGED <<appRevision, pagePhase, currentHour, initialWeatherModeGlobal,
                   prevSession, isLoading>>
    /\ UNCHANGED <<compVars, loadVars, autumnVars>>

\* The tab is closed or reloaded: only localStorage survives.
ClosePage ==
    /\ pagePhase \in {"mounted", "ready", "crashed"}
    /\ prevSession' = [mode |-> weatherMode, persisted |-> pagePhase = "ready",
                       toggles |-> Len(modeTrace) - 1]
    /\ pagePhase' = "closed"
    /\ currentHour' = 0
    /\ initialWeatherModeGlobal' = "none"
    /\ weatherMode' = "none"
    /\ isEffectivelyDarkMode' = FALSE
    /\ bodyClasses' = {}
    /\ appClasses' = {}
    /\ modeTrace' = <<>>
    /\ isLoading' = TRUE
    /\ particleEffect' = "none"
    /\ particleFailure' = "none"
    /\ UNCHANGED <<appRevision, storedWeatherMode>>
    /\ LoadingReset
    /\ UNCHANGED <<compVars, autumnVars>>

\* The loading timer set by the mount effect fires: setIsLoading(false), and
\* the render that follows shows the page content.
LoadingTimerFires ==
    /\ pagePhase = "ready"
    /\ isLoading
    /\ isLoading' = FALSE
    /\ UNCHANGED <<appRevision, storedWeatherMode, pagePhase, currentHour,
                   initialWeatherModeGlobal, weatherMode, isEffectivelyDarkMode,
                   bodyClasses, appClasses, modeTrace, prevSession, particleEffect,
                   particleFailure>>
    /\ UNCHANGED <<compVars, loadVars, autumnVars>>

\* The lazy import of the active effect component resolves and the component
\* renders inside the Canvas.
EffectLoaded ==
    /\ pagePhase \in {"mounted", "ready"}
    /\ particleEffect = "pending"
    /\ particleEffect' = "rendered"
    /\ UNCHANGED <<appRevision, storedWeatherMode, pagePhase, currentHour,
                   initialWeatherModeGlobal, weatherMode, isEffectivelyDarkMode,
                   bodyClasses, appClasses, modeTrace, prevSession, isLoading,
                   particleFailure>>
    /\ UNCHANGED <<compVars, loadVars, autumnVars>>

FailureKinds == {"load", "generate", "setup", "frame"}

\* whether an error boundary of the application catches an error thrown
\* below App: index.js and App declare none
AppHasErrorBoundary == FALSE

\* The particle subsystem fails.  A rejected lazy import and a throw in a
\* render or in an effect are React errors: the Canvas hands them to its host
\* tree or keeps them in its own root, depending on the renderer version
\* (rethrows); in the host tree no boundary catches them, so React unmounts
\* the whole root.  A throw in a frame callback is an uncaught exception of
\* the animation-frame callback and leaves the React trees alone.
ParticleFailure ==
    /\ pagePhase \in {"mounted", "ready"}
    /\ \E kind \in FailureKinds, rethrows \in BOOLEAN :
        /\ kind \in {"load", "generate"} => particleEffect = "pending"
        /\ kind \in {"setup", "frame"} => particleEffect = "rendered"
        /\ particleFailure' = kind
        /\ IF kind = "frame"
           THEN /\ particleEffect' = "failed"
                /\ UNCHANGED pagePhase
           ELSE IF rethrows /\ ~AppHasErrorBoundary
           THEN /\ particleEffect' = "none"
                /\ pagePhase' = "crashed"
           ELSE /\ particleEffect' = "none"
                /\ UNCHANGED pagePhase
    /\ UNCHANGED <<appRevision, storedWeatherMode, currentHour,
                   initialWeatherModeGlobal, weatherMode, isEffectivelyDarkMode,
                   bodyClasses, appClasses, modeTrace, prevSession, isLoading>>
    /\ UNCHANGED <<compVars, loadVars, autumnVars>>

\* `{!isLoading && <div className="content">...}` in a mounted tree
ContentRendered == pagePhase \in {"mounted", "ready"} /\ ~isLoading

\* The controller alone: the loading timer and the effect components are
\* left where the cold start puts them.
NextCtl ==
    \/ ColdStart
    \/ MountEffects
    \/ toggleWeatherMode
    \/ ClosePage

\* The page with its loading screen and its particle effect.
NextPage ==
    \/ ColdStart
    \/ MountEffects
    \/ toggleWeatherMode
    \/ LoadingTimerFires
    \/ EffectLoaded
    \/ ParticleFailure
    \/ ClosePage

SpecCtl == InitCtl /\ [][NextCtl]_vars

\* The effect of Loading keyed on [isLoading, isExiting], run after a commit
\* in which a dependency changed: first the
\* cleanup of the previous run, `clearTimeout(hideTimer)`, then the body.
LoadingEffectRuns ==
    /\ pagePhase \in {"mounted", "ready"}
    /\ loadingDeps # <<isLoading, isExiting>>
    /\ LET exits == ~isLoading /\ ~isExiting
           cleaned == IF hideTimer = "armed" THEN "cleared" ELSE hideTimer
       IN  /\ isExiting' = (isExiting \/ exits)
           /\ hideTimer' = IF exits THEN "armed" ELSE cleaned
    /\ loadingDeps' = <<isLoading, isExiting>>
    /\ UNCHANGED isHidden
    /\ UNCHANGED <<ctlVars, compVars, autumnVars>>

\* The timeout armed by the effect elapses: `setIsHidden(true)`.  The dependencies
\* do not change, so no effect follows the render that returns null.  The
\* delay between a render and its effects is not bounded here, so an armed
\* timeout may elapse before the effects of the next commit have run.
HideTimerFires ==
    /\ pagePhase \in {"mounted", "ready"}
    /\ hideTimer = "armed"
    /\ isHidden' = TRUE
    /\ hideTimer' = "fired"
    /\ UNCHANGED <<isExiting, loadingDeps>>
    /\ UNCHANGED <<ctlVars, compVars, autumnVars>>

\* The page and its loading screen.
NextLoading ==
    \/ ColdStart
    \/ MountEffects
    \/ LoadingTimerFires
    \/ LoadingEffectRuns
    \/ HideTimerFires
    \/ ClosePage

\* React runs the effects of a commit and the browser fires an armed timeout
\* that is not cleared; the App timer and the closing of the page are left
\* to the environment.
SpecLoading ==
    /\ InitCtl
    /\ [][NextLoading]_vars
    /\ WF_vars(LoadingEffectRuns)
    /\ WF_vars(HideTimerFires)

(***************************************************************************)
(* Lifecycle and frame loop of one Effect Compositor                       *)
(***************************************************************************)
InitFrame ==
    /\ appRevision = "index_js"
    /\ storedWeatherMode = NoItem
    /\ pagePhase = "closed"
    /\ currentHour = 0
    /\ initialWeatherModeGlobal = "none"
    /\ weatherMode = "none"
    /\ isEffectivelyDarkMode = FALSE
    /\ bodyClasses = {}
    /\ appClasses = {}
    /\ modeTrace = <<>>
    /\ prevSession = NoSession
    /\ isLoading = TRUE
    /\ particleEffect = "none"
    /\ particleFailure = "none"
    /\ InitComp
    /\ InitAutumn
    /\ InitLoading
    /\ strictMode \in BOOLEAN

\* First render and commit of a compositor: memos are computed, the
\* InstancedMesh is constructed with `count` blank slots and attached to the
\* ref, the frame callback is subscribed.  Passive effects are still pending.
MountWith(kinds, sizes, seeds, viewports) ==
    /\ compPhase \in {"none", "unmounted", "crashed"}
    /\ \E sp \in kinds, n \in sizes, seed \in seeds, vp \in viewports,
          given \in BOOLEAN,
          props \in LeafPropsChoices :
        /\ sp = "leaves" => n >= 1
        /\ sp # "leaves" => (~given /\ props = GoodProps)
        /\ species' = sp
        /\ count' = n
        /\ physicsGiven' = given
        /\ leafProps' = props
        /\ viewport' = vp
        /\ particles' = ParticlesMemo(sp, props, n, seed, vp, given)
        /\ particlesDeps' = ParticlesDeps(sp, n, vp, 1)
        /\ meshAttached' = ~RendersNull(sp, props, n)
        /\ matBuf' = IF RendersNull(sp, props, n) THEN <<>> ELSE [k \in 1..n |-> BlankSlot]
        /\ meshCount' = IF RendersNull(sp, props, n) THEN 0 ELSE n
        /\ windEffect' = IF sp = "rain"
                         THEN [dirX |-> 10, dirZ |-> 0, noiseTime |-> 25 * Draw(seed, 0)]
                         ELSE NoWind
    /\ compPhase' = "committed"
    /\ prevCount' = -1
    /\ fieldId' = 1
    /\ configId' = 1
    /\ setupRuns' = 0
    /\ colorAttr' = NoColorAttribute
    /\ matNeedsUpdate' = FALSE
    /\ colNeedsUpdate' = FALSE
    /\ geomCreated' = 1
    /\ disposeCalls' = 0
    /\ frames' = 0
    /\ time' = 0
    /\ lastOp' = "mount"
    /\ opLog' = <<>>
    /\ frameIn' = NoFrame
    /\ UNCHANGED strictMode
    /\ UNCHANGED <<ctlVars, loadVars, autumnVars>>

MountFrom(seeds, viewports) == MountWith(Species, 0..MaxCount, seeds, viewports)

Mount == MountFrom(Seeds, Viewports)

\* the mount of a falling compositor of one particle in a canvas of 500 x 100
\* pixels
LiveCounts == {1}
LiveViewports == {[width |-> 50, height |-> 10]}
MountFalling == MountWith(FallingSpecies, LiveCounts, Seeds, LiveViewports)

\* the same mount, over every random stream and the wider set of viewports
Generate == MountFrom(GenSeeds, GenViewports)

\* whether the setup effect returns at its guard
SetupSkipped == ~meshAttached \/ Len(particles) = 0

\* The pending passive effects run: the setup effect, and on mount the
\* registration of the disposal effect.  Under StrictMode the mount effects
\* are replayed at once: every cleanup runs, then every effect runs again.
RunEffects ==
    /\ compPhase = "committed"
    /\ LET replay == strictMode /\ lastOp = "mount"
           runs == IF replay THEN 2 ELSE 1
           first == SetupColorAttribute(species, colorAttr, particles, count)
           res == IF replay /\ ~first.threw
                  THEN SetupColorAttribute(species, first.attr, particles, count)
                  ELSE first
       IN  /\ disposeCalls' = IF replay /\ HasDisposalEffect(species)
                              THEN disposeCalls + 1 ELSE disposeCalls
           /\ IF SetupSkipped
              THEN /\ meshCount' = IF species = "leaves" /\ meshAttached THEN 0 ELSE meshCount
                   /\ UNCHANGED <<matBuf, colorAttr, matNeedsUpdate, colNeedsUpdate,
                                  setupRuns>>
                   /\ opLog' = <<>>
                   /\ compPhase' = "active"
              ELSE /\ matBuf' = SetupSlots(particles, count, matBuf)
                   /\ colorAttr' = res.attr
                   /\ matNeedsUpdate' = (matNeedsUpdate \/ ~res.threw)
                   /\ colNeedsUpdate' = (colNeedsUpdate \/ first.flagged \/ res.flagged)
                   /\ meshCount' = IF species = "leaves" THEN count ELSE meshCount
                   /\ setupRuns' = setupRuns + runs
                   /\ opLog' = SetupLogFor(species, count, res)
                   /\ compPhase' = IF res.threw THEN "crashed" ELSE "active"
    /\ lastOp' = "setup"
    /\ UNCHANGED <<strictMode, leafProps, species, count, prevCount, physicsGiven, meshAttached,
                   viewport, particles, fieldId, configId, particlesDeps, windEffect,
                   geomCreated, frames, time, frameIn>>
    /\ UNCHANGED <<ctlVars, loadVars, autumnVars>>

\* One tick of the render loop: the compositor's useFrame callback; limit
\* bounds the ticks that are followed.
FrameUpTo(limit) ==
    /\ compPhase \in {"committed", "active"}
    /\ frames < limit
    /\ \E delta60 \in Delta60s, seed \in Seeds :
        LET returns == FrameGuardReturns(species, meshAttached, meshCount, count,
                                         particles, colorAttr)
            hasColor == colorAttr # NoColorAttribute
            wind == IF species = "rain" THEN WindUpdate(windEffect, delta60) ELSE windEffect
            env == [time |-> time + delta60, delta60 |-> delta60, seed |-> seed,
                    viewport |-> viewport, config |-> MergeConfig(physicsGiven),
                    wind |-> wind, hasColor |-> hasColor]
            acc0 == [mat |-> matBuf,
                     col |-> IF hasColor THEN colorAttr[1] ELSE <<>>,
                     parts |-> particles, log |-> <<>>, reset |-> {}, any |-> FALSE]
            acc == FrameLoop(species, 0, LoopBound(species, count, meshCount), env, acc0)
            flags == FlagEntries(species, acc.any, hasColor)
        IN  /\ time' = time + delta60
            /\ frameIn' = [delta60 |-> delta60, seed |-> seed, viewport |-> viewport,
                           ran |-> ~returns, reset |-> IF returns THEN {} ELSE acc.reset,
                           setupRunsBefore |-> setupRuns]
            /\ IF returns
               THEN /\ opLog' = <<>>
                    /\ UNCHANGED <<matBuf, colorAttr, particles, windEffect,
                                   matNeedsUpdate, colNeedsUpdate>>
               ELSE /\ matBuf' = acc.mat
                    /\ colorAttr' = IF hasColor THEN <<acc.col>> ELSE colorAttr
                    /\ particles' = acc.parts
                    /\ windEffect' = wind
                    /\ opLog' = acc.log \o flags
                    /\ matNeedsUpdate' =
                           (matNeedsUpdate \/ \E k \in 1..Len(flags) : flags[k].ev = "matFlag")
                    /\ colNeedsUpdate' =
                           (colNeedsUpdate \/ \E k \in 1..Len(flags) : flags[k].ev = "colFlag")
    /\ frames' = frames + 1
    /\ lastOp' = "frame"
    /\ UNCHANGED <<strictMode, leafProps, species, count, prevCount, physicsGiven, compPhase,
                   meshAttached, meshCount, viewport, fieldId, configId, particlesDeps,
                   setupRuns, geomCreated, disposeCalls>>
    /\ UNCHANGED <<ctlVars, loadVars, autumnVars>>

Frame == FrameUpTo(MaxFrames)

\* The component body executes again (props given by `given`, store viewport
\* vp): the `config` and `particles` memos compare their dependencies and a
\* changed `particles` array schedules the setup effect.
RenderAgain(n, vp, seed, op) ==
    LET cfg == IF species = "leaves" /\ ~physicsGiven THEN configId + 1 ELSE configId
        deps == ParticlesDeps(species, n, vp, cfg)
        regenerate == deps # particlesDeps
    IN  /\ regenerate => fieldId < MaxFields
        /\ configId' = cfg
        /\ particlesDeps' = deps
        /\ particles' = IF regenerate
                        THEN ParticlesMemo(species, leafProps, n, seed, vp, physicsGiven)
                        ELSE particles
        /\ fieldId' = IF regenerate THEN fieldId + 1 ELSE fieldId
        /\ compPhase' = IF regenerate THEN "committed" ELSE compPhase
        /\ lastOp' = op

\* The canvas is resized: the store's viewport changes and the components
\* subscribed to the store render again.
Resize ==
    /\ compPhase = "active"
    /\ \E vp \in Viewports, seed \in Seeds :
        /\ vp # viewport
        /\ viewport' = vp
        /\ IF UsesThreeStore(species)
           THEN RenderAgain(count, vp, seed, "resize")
           ELSE /\ lastOp' = "resize"
                /\ UNCHANGED <<configId, particlesDeps, particles, fieldId, compPhase>>
    /\ opLog' = <<>>
    /\ UNCHANGED <<strictMode, leafProps, species, count, prevCount, physicsGiven, meshAttached,
                   meshCount, setupRuns, matBuf, colorAttr, matNeedsUpdate, colNeedsUpdate,
                   windEffect, geomCreated, disposeCalls, frames, time, frameIn>>
    /\ UNCHANGED <<ctlVars, loadVars, autumnVars>>

\* The component renders again with the same props and the same viewport.
Rerender ==
    /\ compPhase = "active"
    /\ \E seed \in Seeds : RenderAgain(count, viewport, seed, "rerender")
    /\ opLog' = <<>>
    /\ UNCHANGED <<strictMode, leafProps, species, count, prevCount, physicsGiven, meshAttached,
                   meshCount, viewport, setupRuns, matBuf, colorAttr, matNeedsUpdate,
                   colNeedsUpdate, windEffect, geomCreated, disposeCalls, frames, time,
                   frameIn>>
    /\ UNCHANGED <<ctlVars, loadVars, autumnVars>>

\* The parent passes another `count`.  The `particles` memo regenerates the
\* field, and the instancedMesh element is rebuilt with the new count (its
\* `key` or its `args` changed): a new InstancedMesh with `m` blank slots is
\* attached to the ref.  The geometry is memoized (or a prop), so the 'color'
\* attribute set on it by an earlier setup stays until the setup effect of
\* this render deals with it.
Recount ==
    /\ compPhase = "active"
    /\ \E m \in 0..MaxCount, seed \in Seeds :
        /\ m # count
        /\ species = "leaves" => m >= 1
        /\ count' = m
        /\ prevCount' = count
        /\ RenderAgain(m, viewport, seed, "recount")
        /\ meshAttached' = ~RendersNull(species, leafProps, m)
        /\ matBuf' = IF RendersNull(species, leafProps, m) THEN <<>>
                      ELSE [k \in 1..m |-> BlankSlot]
        /\ meshCount' = IF RendersNull(species, leafProps, m) THEN 0 ELSE m
    /\ matNeedsUpdate' = FALSE
    /\ opLog' = <<>>
    /\ UNCHANGED <<strictMode, leafProps, species, physicsGiven, viewport, setupRuns,
                   colorAttr, colNeedsUpdate, windEffect, geomCreated, disposeCalls,
                   frames, time, frameIn>>
    /\ UNCHANGED <<ctlVars, loadVars, autumnVars>>

\* Teardown (mode switch or unmount): the effect cleanups run; the mesh, the
\* particle array and the buffers are unreachable afterwards.
Unmount ==
    /\ compPhase = "active"
    /\ disposeCalls' = IF HasDisposalEffect(species) THEN disposeCalls + 1 ELSE disposeCalls
    /\ compPhase' = "unmounted"
    /\ prevCount' = -1
    /\ meshAttached' = FALSE
    /\ meshCount' = 0
    /\ viewport' = NoViewport
    /\ particles' = <<>>
    /\ fieldId' = 0
    /\ configId' = 0
    /\ particlesDeps' = <<>>
    /\ setupRuns' = 0
    /\ matBuf' = <<>>
    /\ colorAttr' = NoColorAttribute
    /\ matNeedsUpdate' = FALSE
    /\ colNeedsUpdate' = FALSE
    /\ windEffect' = NoWind
    /\ frames' = 0
    /\ time' = 0
    /\ lastOp' = "unmount"
    /\ opLog' = <<>>
    /\ frameIn' = NoFrame
    /\ UNCHANGED <<strictMode, leafProps, species, count, physicsGiven, geomCreated>>
    /\ UNCHANGED <<ctlVars, loadVars, autumnVars>>

NextFrame ==
    \/ Mount
    \/ RunEffects
    \/ Frame
    \/ Resize
    \/ Rerender
    \/ Unmount

\* index.js passes each compositor a constant count, so the count of a mounted
\* compositor never changes under SpecFrame.
SpecFrame == InitFrame /\ [][NextFrame]_vars

\* `attribute.needsUpdate = true`: the setter marks the attribute for upload
\* (three.js bumps its version) and leaves its array alone
NeedsUpdateSetAndCleared(buf) == [array |-> [k \in DOMAIN buf |-> BlankSlot], flag |-> TRUE]
NeedsUpdateSet(buf) == [array |-> buf, flag |-> TRUE]

\* The flag assignments that end a frame step or a setup run again in the
\* same frame, with no write in between.
FlagAgain ==
    /\ compPhase = "active"
    /\ lastOp \in {"frame", "setup", "flag"}
    /\ matNeedsUpdate
    /\ matBuf' = NeedsUpdateSet(matBuf).array
    /\ matNeedsUpdate' = NeedsUpdateSet(matBuf).flag
    /\ colNeedsUpdate' = (colNeedsUpdate \/ colorAttr # NoColorAttribute)
    /\ lastOp' = "flag"
    /\ opLog' = <<LogEntry("matFlag", -1)>>
                    \o (IF colorAttr # NoColorAttribute
                        THEN <<LogEntry("colFlag", -1)>> ELSE <<>>)
    /\ UNCHANGED <<strictMode, leafProps, species, count, prevCount, physicsGiven, compPhase,
                   meshAttached, meshCount, viewport, particles, fieldId, configId,
                   particlesDeps, setupRuns, colorAttr, windEffect, geomCreated,
                   disposeCalls, frames, time, frameIn>>
    /\ UNCHANGED <<ctlVars, loadVars, autumnVars>>

\* Field generation on its own: mount, setup, frames, flags, teardown.
NextGen ==
    \/ Generate
    \/ RunEffects
    \/ Frame
    \/ FlagAgain
    \/ Unmount

SpecGen == InitFrame /\ [][NextGen]_vars

\* index.js wraps App in React.StrictMode
InitPage == InitFrame /\ strictMode = TRUE
SpecPage == InitPage /\ [][NextPage]_vars

\* The compositor as a component whose parent may change `count`.
NextRecount ==
    \/ Mount
    \/ RunEffects
    \/ Frame
    \/ Recount
    \/ Unmount

SpecRecount == InitFrame /\ [][NextRecount]_vars

\* First render and commit of a FogVolume.
FogMount ==
    /\ compPhase \in {"none", "unmounted", "crashed"}
    /\ \E n \in 0..MaxCount, seed \in GenSeeds, vp \in GenViewports :
        /\ count' = n
        /\ viewport' = vp
        /\ particles' = [k \in 1..n |-> FogParticle(seed, k - 1, vp)]
        /\ particlesDeps' = <<n, vp.height, SizeOf(vp).width, SizeOf(vp).height>>
        /\ matBuf' = [k \in 1..n |-> BlankSlot]
        /\ meshCount' = n
    /\ species' = "fog"
    /\ physicsGiven' = FALSE
    /\ leafProps' = GoodProps
    /\ meshAttached' = TRUE
    /\ windEffect' = NoWind
    /\ compPhase' = "committed"
    /\ prevCount' = -1
    /\ fieldId' = 1
    /\ configId' = 1
    /\ setupRuns' = 0
    /\ colorAttr' = NoColorAttribute
    /\ matNeedsUpdate' = FALSE
    /\ colNeedsUpdate' = FALSE
    /\ geomCreated' = 1
    /\ disposeCalls' = 0
    /\ frames' = 0
    /\ time' = 0
    /\ lastOp' = "mount"
    /\ opLog' = <<>>
    /\ frameIn' = NoFrame
    /\ UNCHANGED strictMode
    /\ UNCHANGED <<ctlVars, loadVars, autumnVars>>

\* A mounted FogVolume: its effects, its frame ticks, its unmount.
NextFog ==
    \/ FogMount
    \/ RunEffects
    \/ Frame
    \/ Unmount

SpecFog == InitFrame /\ [][NextFog]_vars

\* The render loop keeps ticking for a mounted falling compositor: the
\* viewport stays as it is and the component is not rendered again.
Tick == FrameUpTo(MaxTicks)

NextLive ==
    \/ MountFalling
    \/ RunEffects
    \/ Tick

\* requestAnimationFrame keeps delivering frames to a mounted Canvas.
SpecLive ==
    /\ InitPage
    /\ [][NextLive]_vars
    /\ WF_vars(Tick)

(***************************************************************************)
(* AutumnLeaves: three InstancedFallingItems compositors that share the    *)
(* module-level scratch objects of part_012.  A handler runs to completion *)
(* before another one starts; the handlers of different compositors        *)
(* interleave in any order.                                                *)
(***************************************************************************)
oakPhysics ==
    [scaleRange |-> <<20, 36>>, fallSpeedRange |-> <<1, 3>>, rotSpeedRange |-> <<6, 15>>]
autumnOakColors == <<70, 55, 77, 63, 85>>
autumnOakColorsB == <<12, 7, 16, 18, 13>>

\* the `config` memo of the compositor of a leaf kind
LeafConfig(kind) ==
    [k \in DOMAIN DefaultPhysics |->
        CASE kind = "maple" /\ k \in DOMAIN maplePhysics -> maplePhysics[k]
          [] kind = "oak" /\ k \in DOMAIN oakPhysics -> oakPhysics[k]
          [] OTHER -> DefaultPhysics[k]]
LeafPalette(kind) ==
    CASE kind = "maple" -> autumnMapleColors
      [] kind = "oak" -> autumnOakColors
      [] OTHER -> autumnBirchColors
LeafPaletteB(kind) ==
    CASE kind = "maple" -> autumnMapleColorsB
      [] kind = "oak" -> autumnOakColorsB
      [] OTHER -> autumnBirchColorsB

LeafCountsFloorOnly(total) ==
    [maple |-> total \div 3, oak |-> total \div 3, birch |-> total \div 3]
\* the `counts` useMemo of AutumnLeavesComponent
LeafCounts(total) ==
    LET baseCount == total \div 3
        remainder == total % 3
        mapleCount == Max(0, baseCount + (IF remainder > 0 THEN 1 ELSE 0))
        oakCount == Max(0, baseCount + (IF remainder > 1 THEN 1 ELSE 0))
        birchCount == Max(0, baseCount)
        m == IF total >= 1 THEN 1 ELSE 0
        o == IF total >= 2 THEN 1 ELSE 0
        b == IF total >= 3 THEN 1 ELSE 0
    IN  IF total = 0 THEN NoCounts
        ELSE IF mapleCount + oakCount + birchCount > total
        THEN (IF m + o + b > total /\ o > 0 /\ total < 2
              THEN [maple |-> 1, oak |-> 0, birch |-> 0]
              ELSE IF m + o + b > total /\ b > 0 /\ total < 3
              THEN [maple |-> m, oak |-> o, birch |-> 0]
              ELSE [maple |-> m, oak |-> o, birch |-> b])
        ELSE [maple |-> mapleCount, oak |-> oakCount, birch |-> birchCount]

\* instances generated before those of a kind: the three `particles` memos
\* run in the order maple, oak, birch on one Math.random() stream
LeafOffset(kind, c) ==
    CASE kind = "maple" -> 0
      [] kind = "oak" -> c.maple
      [] OTHER -> c.maple + c.oak

\* AutumnLeaves renders: the counts are split and a compositor is mounted for
\* every kind with a positive count (the leaf geometries are always created).
AutumnMountWith(totals) ==
    /\ totalCount = -1
    /\ \E total \in totals, seed \in Seeds :
        LET c == LeafCounts(total)
        IN  /\ totalCount' = total
            /\ counts' = c
            /\ leafPhase' = [k \in LeafKinds |-> IF c[k] > 0 THEN "committed" ELSE "none"]
            /\ leafParts' =
                  [k \in LeafKinds |->
                      IF c[k] > 0
                      THEN [i \in 1..c[k] |->
                               LeafParticle(seed, LeafOffset(k, c) + i - 1, LeafConfig(k),
                                            LeafPalette(k), LeafPaletteB(k))]
                      ELSE <<>>]
            /\ leafMat' = [k \in LeafKinds |->
                              IF c[k] > 0 THEN [i \in 1..c[k] |-> BlankSlot] ELSE <<>>]
            /\ leafOp' = [NoLeafOp EXCEPT !.op = "mount", !.seed = seed]
    /\ leafFrames' = [k \in LeafKinds |-> 0]
    /\ leafClock' = 0
    /\ UNCHANGED scratch
    /\ UNCHANGED <<ctlVars, compVars, loadVars>>

AutumnMount == AutumnMountWith(0..MaxTotal)

\* the same render for every totalCount up to MaxTotalCount
AutumnSplit == AutumnMountWith(0..MaxTotalCount)

\* AutumnLeaves is unmounted; the scratch objects of the module stay as the
\* last handler left them.
AutumnUnmount ==
    /\ totalCount >= 0
    /\ \A k \in LeafKinds : leafPhase[k] # "committed"
    /\ totalCount' = -1
    /\ counts' = NoCounts
    /\ leafPhase' = [k \in LeafKinds |-> "none"]
    /\ leafParts' = [k \in LeafKinds |-> <<>>]
    /\ leafMat' = [k \in LeafKinds |-> <<>>]
    /\ leafFrames' = [k \in LeafKinds |-> 0]
    /\ leafClock' = 0
    /\ leafOp' = [NoLeafOp EXCEPT !.op = "unmount"]
    /\ UNCHANGED scratch
    /\ UNCHANGED <<ctlVars, compVars, loadVars>>

DecomposeKeepingScale(obj, slot) ==
    [x |-> slot.x, y |-> slot.y, z |-> slot.z, s |-> obj.s, rot |-> slot.rot]
\* `mesh.getMatrixAt(i, tempObject.matrix)` and `tempObject.matrix.decompose(
\* tempObject.position, tempObject.quaternion, tempObject.scale)`: the fields
\* of the scratch object after them
Decompose(obj, slot) ==
    [x |-> slot.x, y |-> slot.y, z |-> slot.z, s |-> slot.s, rot |-> slot.rot]

\* the loop of the setup effect, computed in the scratch objects; acc carries
\* the matrix buffer and the scratch objects
RECURSIVE SetupViaScratch(_, _, _, _)
SetupViaScratch(parts, i, n, acc) ==
    IF i >= n THEN acc
    ELSE IF i + 1 > Len(parts) THEN SetupViaScratch(parts, i + 1, n, acc)
    ELSE LET p == parts[i + 1]
             tempEuler == p.rot
             tempObject == [x |-> p.x, y |-> p.y, z |-> p.z, s |-> p.scale,
                            rot |-> tempEuler]
         IN  SetupViaScratch(parts, i + 1, n,
                 [mat |-> [acc.mat EXCEPT ![i + 1] = tempObject],
                  scr |-> [acc.scr EXCEPT !.tempObject = tempObject,
                                          !.tempEuler = tempEuler]])

\* the loop of the frame callback, computed in the scratch objects
RECURSIVE FrameViaScratch(_, _, _, _, _)
FrameViaScratch(parts, i, bound, env, acc) ==
    IF i >= bound THEN acc
    ELSE IF i + 1 > Len(parts) THEN FrameViaScratch(parts, i + 1, bound, env, acc)
    ELSE LET tempObject == Decompose(acc.scr.tempObject, acc.mat[i + 1])
             st == StepFalling("leaves", parts[i + 1], tempObject, i, env)
         IN  FrameViaScratch(parts, i + 1, bound, env,
                 [mat |-> [acc.mat EXCEPT ![i + 1] = st.slot],
                  scr |-> [tempObject |-> st.slot,
                           tempEuler |-> st.slot.rot,
                           resetQuat |-> IF st.reset THEN st.slot.rot
                                         ELSE acc.scr.resetQuat]])

\* The setup effect of the compositor of one leaf kind.
LeafSetup ==
    \E kind \in LeafKinds :
        /\ leafPhase[kind] = "committed"
        /\ LET acc == SetupViaScratch(leafParts[kind], 0, counts[kind],
                                       [mat |-> leafMat[kind], scr |-> scratch])
           IN  /\ leafMat' = [leafMat EXCEPT ![kind] = acc.mat]
               /\ scratch' = acc.scr
        /\ leafPhase' = [leafPhase EXCEPT ![kind] = "active"]
        /\ leafOp' = [NoLeafOp EXCEPT !.op = "setup", !.kind = kind, !.time = leafClock]
        /\ UNCHANGED <<totalCount, counts, leafParts, leafFrames, leafClock>>
        /\ UNCHANGED <<ctlVars, compVars, loadVars>>

\* the viewport of the Canvas that AutumnLeaves is rendered in
AutumnViewport == [width |-> 50, height |-> 10]

\* the environment of a frame callback of a leaf compositor
LeafEnv(kind, t, delta60, seed) ==
    [time |-> t, delta60 |-> delta60, seed |-> seed, viewport |-> AutumnViewport,
     config |-> LeafConfig(kind), wind |-> NoWind, hasColor |-> FALSE]

\* `60 * delta` of the frames of the Canvas the leaves are rendered in: the
\* step clamps delta to 0.1 s
LeafDelta60s == {6}
\* the Math.random() stream the respawns of the leaves draw from
LeafSeeds == {1}

\* The frame callback of the compositor of one leaf kind.
LeafFrame ==
    \E kind \in LeafKinds, delta60 \in LeafDelta60s, seed \in LeafSeeds :
        /\ leafPhase[kind] \in {"committed", "active"}
        /\ leafFrames[kind] < MaxLeafFrames
        /\ LET env == LeafEnv(kind, leafClock + delta60, delta60, seed)
               acc == FrameViaScratch(leafParts[kind], 0, counts[kind], env,
                                      [mat |-> leafMat[kind], scr |-> scratch])
           IN  /\ leafMat' = [leafMat EXCEPT ![kind] = acc.mat]
               /\ scratch' = acc.scr
        /\ leafFrames' = [leafFrames EXCEPT ![kind] = @ + 1]
        /\ leafClock' = leafClock + delta60
        /\ leafOp' = [op |-> "frame", kind |-> kind, delta60 |-> delta60, seed |-> seed,
                      time |-> leafClock + delta60]
        /\ UNCHANGED <<totalCount, counts, leafPhase, leafParts>>
        /\ UNCHANGED <<ctlVars, compVars, loadVars>>

NextAutumn ==
    \/ AutumnMount
    \/ LeafSetup
    \/ LeafFrame

SpecAutumn == InitFrame /\ [][NextAutumn]_vars

\* the split of totalCount alone
NextSplit ==
    \/ AutumnSplit
    \/ AutumnUnmount

SpecSplit == InitFrame /\ [][NextSplit]_vars

(***************************************************************************)
(* Claims about the Weather Mode Controller (checked under SpecCtl)        *)
(***************************************************************************)
ExpectedSuccessor ==
    [m \in {"sakura", "fireflies", "snow", "rain", "autumn"} |->
        CASE m = "sakura" -> "fireflies"
          [] m = "fireflies" -> "snow"
          [] m = "snow" -> "rain"
          [] m = "rain" -> "autumn"
          [] m = "autumn" -> "sakura"]

\* C3: every toggle advances the mode to the next entry of
\* sakura, fireflies, snow, rain, autumn (wrapping); five toggles from sakura
\* give fireflies, snow, rain, autumn, sakura; a mode recurs after exactly 5
\* toggles and after no fewer.
C3_ToggleCycle ==
    /\ \A k \in 1..(Len(modeTrace) - 1) :
          /\ modeTrace[k] \in DOMAIN ExpectedSuccessor
          /\ modeTrace[k + 1] = ExpectedSuccessor[modeTrace[k]]
    /\ (Len(modeTrace) >= 6 /\ modeTrace[1] = "sakura")
          => SubSeq(modeTrace, 2, 6) = <<"fireflies", "snow", "rain", "autumn", "sakura">>
    /\ \A i, j \in 1..Len(modeTrace) :
          (i < j /\ modeTrace[i] = modeTrace[j]) => (j - i) % 5 = 0
    /\ \A i \in 1..Len(modeTrace) :
          i + 5 <= Len(modeTrace) => modeTrace[i + 5] = modeTrace[i]

C3_Witness ==
    /\ Len(modeTrace) = 6
    /\ modeTrace[1] = "sakura"
    /\ weatherMode = "sakura"

\* C4: whenever the controller is running, the dark-theme flag is true iff
\* the mode is 'fireflies'; once the theme effect has run, the theme class on
\* body and on the app container agrees with it.
C4_DarkIffFireflies ==
    /\ pagePhase # "closed" => (isEffectivelyDarkMode <=> weatherMode = "fireflies")
    /\ pagePhase = "ready" =>
          /\ ("dark-mode" \in bodyClasses) <=> weatherMode = "fireflies"
          /\ ("light-mode" \in bodyClasses) <=> weatherMode # "fireflies"
          /\ ("dark-mode" \in appClasses) <=> weatherMode = "fireflies"
          /\ ("light-mode" \in appClasses) <=> weatherMode # "fireflies"

C4_Witness ==
    /\ pagePhase = "ready"
    /\ Len(modeTrace) >= 2
    /\ initialWeatherModeGlobal = "sakura"
    /\ weatherMode = "fireflies"
    /\ isEffectivelyDarkMode

ValidModeSet == {"sakura", "fireflies", "snow", "rain", "autumn"}

\* C5: right after a cold start the mode is the stored value when that value
\* is a recognized mode, otherwise a time-of-day default of the hour; it is
\* always a member of the mode enum.
C5_ColdStartFallback ==
    pagePhase = "mounted" =>
        /\ weatherMode \in ValidModeSet
        /\ weatherMode = initialWeatherModeGlobal
        /\ IF storedWeatherMode # NoItem /\ storedWeatherMode[1] \in ValidModeSet
           THEN weatherMode = storedWeatherMode[1]
           ELSE \E coin \in BOOLEAN :
                    weatherMode = TimeOfDayDefault(appRevision, currentHour, coin)

C5_Witness ==
    /\ pagePhase = "mounted"
    /\ storedWeatherMode = <<"bogus-mode">>
    /\ currentHour = 20
    /\ weatherMode = "fireflies"

\* C6: once the persistence effect has run the stored value is the current
\* mode (after the mount and after every toggle), and a cold start after a
\* session that persisted starts in the mode that session ended in.
C6_PersistedOnChange ==
    /\ pagePhase = "ready" => storedWeatherMode = <<weatherMode>>
    /\ (pagePhase = "mounted" /\ prevSession.persisted)
          => weatherMode = prevSession.mode

C6_Witness ==
    /\ pagePhase = "mounted"
    /\ prevSession.persisted
    /\ prevSession.toggles >= 2
    /\ weatherMode = "rain"

\* C16: after any failure of the particle subsystem (failed load, throw in
\* field generation, setup or a frame step) no particle effect is rendered,
\* the page is still mounted, and the content is rendered as soon as loading
\* has completed.
C16_FailureKeepsContent ==
    particleFailure # "none" =>
        /\ particleEffect # "rendered"
        /\ pagePhase \in {"mounted", "ready"}
        /\ ~isLoading => ContentRendered

(***************************************************************************)
(* Claims about the Effect Compositors (checked under SpecFrame)           *)
(***************************************************************************)
IsMatWrite(e) == e.ev = "mat"
IsColWrite(e) == e.ev = "col"

\* a step of the model in which the frame callback ran past its guard
FrameRan == frames' = frames + 1 /\ frameIn'.ran

\* C1: in every frame step that runs, the particle array and the transform
\* buffer both have `count` entries, the step writes the slots 0..count-1
\* once each in order, and afterwards the arrays have the same length and
\* every index holds the same particle (its generated attributes, and for the
\* species that keep the scale, the slot's scale) as before, respawned or not.
C1_CountFixed ==
    [][FrameRan =>
          /\ Len(particles) = count
          /\ Len(matBuf) = count
          /\ SelectSeq(opLog', IsMatWrite) = [k \in 1..count |-> LogEntry("mat", k - 1)]
          /\ Len(particles') = count
          /\ Len(matBuf') = count
          /\ \A k \in 1..count :
                /\ particles'[k].scale = particles[k].scale
                /\ particles'[k].color = particles[k].color
                /\ species # "fireflies" =>
                      /\ particles'[k] = particles[k]
                      /\ matBuf'[k].s = matBuf[k].s
      ]_vars

C1_Witness ==
    /\ lastOp = "frame"
    /\ frameIn.ran
    /\ species = "leaves"
    /\ count = 2
    /\ frameIn.reset # {}
    /\ frames = 2

\* C2: for sakura, snow and leaves, a particle whose fallen y of this step
\* is below bottomEdge - margin is stored by the same step at
\* topEdge + 1 <= y < topEdge + 4 with x one of the draws across the width of
\* the viewport the step read, and every stored y is >= bottomEdge - margin
\* of that viewport after the step.
C2_RespawnInStep ==
    [][(FrameRan /\ species \in FallingSpecies) =>
          LET vp == frameIn'.viewport
              config == MergeConfig(physicsGiven)
              margin == 4 * (IF species = "leaves" THEN config.resetBoundaryOffset ELSE 2)
              bottomEdge == -2 * vp.height
              topEdge == 2 * vp.height
              width == IF species = "leaves" THEN 162 ELSE 160
          IN  /\ vp = viewport
              /\ \A k \in 1..count :
                    /\ FallenY(species, particles[k], matBuf[k], frameIn'.delta60)
                           < bottomEdge - margin
                       => /\ matBuf'[k].y >= topEdge + 4
                          /\ matBuf'[k].y < topEdge + 16
                          /\ \E d \in 0..3 :
                                matBuf'[k].x = ((d - 2) * vp.width * width) \div 100
                          /\ (k - 1) \in frameIn'.reset
                    /\ matBuf'[k].y >= bottomEdge - margin
      ]_vars

C2_Witness ==
    /\ lastOp = "frame"
    /\ frameIn.ran
    /\ species = "leaves"
    /\ viewport.width = 50
    /\ \E k \in 1..count :
          /\ (k - 1) \in frameIn.reset
          /\ matBuf[k].y > 2 * viewport.height
          /\ Abs(matBuf[k].x) > 72

\* C7: in the log of one frame step the transform flag is set at most once
\* and no transform write follows it; likewise the colour flag and the colour
\* writes; a step that wrote a slot sets the transform flag.
C7_FlagOnceAfterWrites ==
    lastOp = "frame" =>
        /\ Cardinality({k \in 1..Len(opLog) : opLog[k].ev = "matFlag"}) <= 1
        /\ Cardinality({k \in 1..Len(opLog) : opLog[k].ev = "colFlag"}) <= 1
        /\ \A j, k \in 1..Len(opLog) :
              /\ (j < k /\ opLog[j].ev = "matFlag") => opLog[k].ev # "mat"
              /\ (j < k /\ opLog[j].ev = "colFlag") => opLog[k].ev # "col"
        /\ (\E k \in 1..Len(opLog) : opLog[k].ev = "mat")
              => \E k \in 1..Len(opLog) : opLog[k].ev = "matFlag"

C7_Witness ==
    /\ lastOp = "frame"
    /\ species = "rain"
    /\ count = 2
    /\ Len(SelectSeq(opLog, IsMatWrite)) = 2
    /\ Len(SelectSeq(opLog, IsColWrite)) = 2
    /\ opLog[Len(opLog)].ev = "colFlag"

\* C8: a frame tick that finds the compositor not ready (no mesh, no colour
\* attribute, an empty particle array, or the setup effect not yet run since
\* mount) writes no slot, sets no flag and changes no particle or wind state.
C8_NotReadyIsNoOp ==
    [][(frames' = frames + 1
          /\ (~meshAttached \/ colorAttr = NoColorAttribute
                \/ Len(particles) = 0 \/ setupRuns = 0))
       => /\ opLog' = <<>>
          /\ UNCHANGED <<matBuf, colorAttr, matNeedsUpdate, colNeedsUpdate,
                         particles, windEffect>>
      ]_vars

\* C9: a mounted compositor has created its geometry once and has not
\* disposed it; a torn-down compositor has disposed it exactly once.
C9_DisposedOnceAtTeardown ==
    /\ compPhase \in {"committed", "active"} => (geomCreated = 1 /\ disposeCalls = 0)
    /\ compPhase = "unmounted" => (geomCreated = 1 /\ disposeCalls = 1)

\* C10: a render with the same count and the same viewport keeps the
\* particle array (identity and values) and the buffers, and schedules no
\* setup effect.
C10_RerenderKeepsField ==
    [][lastOp' = "rerender" =>
          /\ fieldId' = fieldId
          /\ particles' = particles
          /\ matBuf' = matBuf
          /\ colorAttr' = colorAttr
          /\ compPhase' = compPhase
      ]_vars

\* positions in the log of the last operation holding event ev
LogPositions(ev) == {k \in 1..Len(opLog) : opLog[k].ev = ev}

\* the last setup effect ran to its end and wrote every slot in order
SetupWroteAll ==
    /\ SelectSeq(opLog, IsMatWrite) = [k \in 1..count |-> LogEntry("mat", k - 1)]
    /\ SelectSeq(opLog, IsColWrite) = [k \in 1..count |-> LogEntry("col", k - 1)]
    /\ Len(matBuf) = count
    /\ colorAttr # NoColorAttribute
    /\ \A k \in 1..count :
          /\ matBuf[k] = InitialSlot(particles[k])
          /\ colorAttr[1][k] = particles[k].color

C14_RespawnOnlyMovesPosition ==
    [][(FrameRan /\ species \in FallingSpecies) =>
          \A k \in 1..count :
              (k - 1) \in frameIn'.reset =>
                  /\ particles'[k] = particles[k]
                  /\ matBuf'[k].s = matBuf[k].s
                  /\ matBuf'[k].rot
                         = TickedRot(species, particles[k], matBuf[k], frameIn'.delta60)
                  /\ colorAttr' = colorAttr
      ]_vars

\* C15: a leaf compositor given no geometry, or a missing or empty colour
\* palette, fails at construction: it is never mounted, and so never mounted
\* with an empty particle array and an instance count of 0.
C15_ConfigErrorRefused ==
    (species = "leaves" /\ leafProps # GoodProps) =>
        /\ compPhase \notin {"committed", "active"}
        /\ ~(meshAttached /\ particles = <<>> /\ meshCount = 0)

\* |x| <= 1.3 * width / 2, |y| <= 1.3 * height / 2, |z| <= 12 on the grid
InFireflyBounds(x, y, z, vp) ==
    /\ Abs(x) <= (vp.width * 26) \div 10
    /\ Abs(y) <= (vp.height * 26) \div 10
    /\ Abs(z) <= 240

\* C17: every firefly is inside the firefly boundary (1.3 x half the viewport
\* width and height, 12 in depth) in the generated field and in the transform
\* buffer after every frame step.
C17_FireflyInBounds ==
    species = "fireflies" =>
        /\ lastOp = "mount" =>
              \A k \in 1..Len(particles) :
                  InFireflyBounds(particles[k].x, particles[k].y, particles[k].z, viewport)
        /\ (lastOp = "frame" /\ frameIn.ran) =>
              \A k \in 1..Len(matBuf) :
                  InFireflyBounds(matBuf[k].x, matBuf[k].y, matBuf[k].z, frameIn.viewport)

C19_SnowFieldInSpawnVolume ==
    (species \in SnowRevisions /\ lastOp = "mount"
        /\ viewport = [width |-> 20, height |-> 10]) =>
        /\ Len(particles) = count
        /\ \A k \in 1..Len(particles) :
              /\ particles[k].x >= -72 /\ particles[k].x <= 72
              /\ particles[k].y >= -24 /\ particles[k].y <= 24
              /\ particles[k].z >= -180 /\ particles[k].z <= 180
              /\ particles[k].scale >= 160 /\ particles[k].scale <= 300

\* a snow field of two particles with one on the lower face of the volume
C19_Witness ==
    /\ species = "snow"
    /\ lastOp = "mount"
    /\ viewport = [width |-> 20, height |-> 10]
    /\ count = 2
    /\ \E k \in 1..2 : particles[k].y = -24
    /\ \E k \in 1..2 : particles[k].x = -72

C11_RecountRebuilds ==
    (prevCount >= 0 /\ count >= 1 /\ compPhase \in {"active", "crashed"}) =>
        /\ compPhase = "active"
        /\ Len(particles) = count
        /\ Len(matBuf) = count
        /\ colorAttr # NoColorAttribute
        /\ Len(colorAttr[1]) = count

\* C12: a run of the setup effect ends with a colour buffer of exactly
\* `count` entries, for every species; when it found an attribute of another
\* size it installed a newly allocated one and did not write the old one in
\* place, and it did not raise.
C12_WrongSizeReplaced ==
    [][(compPhase = "committed" /\ lastOp' = "setup" /\ ~SetupSkipped) =>
          /\ compPhase' = "active"
          /\ colorAttr' # NoColorAttribute
          /\ Len(colorAttr'[1]) = count
          /\ (colorAttr # NoColorAttribute /\ Len(colorAttr[1]) # count)
                => \E k \in 1..Len(opLog') : opLog'[k].ev = "colNew"
      ]_vars

BaseValues(sp, p) ==
    IF sp = "fireflies"
    THEN <<p.color, p.colorB, p.scale, p.phase, p.flickerSpeed>>
    ELSE <<p.color, p.colorB, p.scale, p.phase, p.alphaFactor>>

\* C22: a frame step of fireflies or rain leaves every particle's stored base
\* colour, phase, flicker speed and base scale as they were; the colour it
\* writes into the buffer is the stored base colour times the brightness of
\* that frame (0.7..1.3 for fireflies, at most 1 for rain), the firefly scale
\* in the transform is the stored base scale times 0.6..1.4, and the scale of
\* a rain streak is not written.
C22_BaseValuesKept ==
    [][(species \in {"fireflies", "rain"} /\ lastOp' = "frame" /\ frameIn'.ran) =>
          /\ Len(particles') = Len(particles)
          /\ \A k \in 1..Len(particles) :
                /\ BaseValues(species, particles'[k]) = BaseValues(species, particles[k])
                /\ (colorAttr' # NoColorAttribute /\ k <= Len(colorAttr'[1])) =>
                      IF species = "fireflies"
                      THEN /\ 100 * colorAttr'[1][k] <= 130 * particles[k].color
                           /\ 100 * (colorAttr'[1][k] + 1) > 70 * particles[k].color
                      ELSE /\ 100 * colorAttr'[1][k] <= particles[k].color * particles[k].alphaFactor
                           /\ 200 * (colorAttr'[1][k] + 2) > particles[k].color * particles[k].alphaFactor
                /\ k <= Len(matBuf') =>
                      IF species = "fireflies"
                      THEN /\ 100 * matBuf'[k].s <= 140 * particles[k].scale
                           /\ 100 * (matBuf'[k].s + 1) > 60 * particles[k].scale
                      ELSE matBuf'[k].s = matBuf[k].s
      ]_vars

\* after two frame steps a firefly's buffer colour differs from its stored
\* base colour
C22_Witness ==
    /\ species = "fireflies"
    /\ lastOp = "frame"
    /\ frameIn.ran
    /\ frames = 2
    /\ colorAttr # NoColorAttribute
    /\ Len(particles) >= 1
    /\ colorAttr[1][1] # particles[1].color
    /\ matBuf[1].s # particles[1].scale

(***************************************************************************)
(* Claims about the FogVolume (checked under SpecFog)                      *)
(***************************************************************************)
\* C23: after every frame step each fog particle's stored position satisfies
\* -12 <= y <= 4, |x| <= 17.5 and |z| <= 17.5; a particle that the drift of
\* the step carried out through one face of an axis is stored at the opposite
\* face of that axis: within one unit of it for y, within 10% of the
\* half-extent for x and z.
C23_FogWrapsOnThreeAxes ==
    [][(species = "fog" /\ lastOp' = "frame" /\ frameIn'.ran) =>
          \A k \in 1..Len(matBuf') :
              LET moved == FogMoved(particles[k], matBuf[k],
                                    [time |-> time', delta60 |-> frameIn'.delta60])
                  now == matBuf'[k]
              IN  /\ now.y >= -48 /\ now.y <= 16
                  /\ now.x >= -70 /\ now.x <= 70
                  /\ now.z >= -350 /\ now.z <= 350
                  /\ moved.y > 16 => now.y <= -48 + 4
                  /\ moved.y < -48 => now.y >= 16 - 4
                  /\ moved.x > 70 => now.x <= -63
                  /\ moved.x < -70 => now.x >= 63
                  /\ moved.z > 350 => now.z <= -315
                  /\ moved.z < -350 => now.z >= 315
      ]_vars

\* a second frame step in which a rising particle left through the top face
\* and was stored at the bottom face
C23_Witness ==
    /\ species = "fog"
    /\ lastOp = "frame"
    /\ frameIn.ran
    /\ frames = 2
    /\ setupRuns >= 1
    /\ frameIn.reset # {}
    /\ \E k \in 1..Len(matBuf) :
          /\ (k - 1) \in frameIn.reset
          /\ particles[k].speedFactor > 0
          /\ matBuf[k].y <= -44
          /\ Abs(matBuf[k].x) < 63
          /\ Abs(matBuf[k].z) < 315

(***************************************************************************)
(* The particle lifecycle under a running render loop (SpecLive)           *)
(***************************************************************************)
\* frame ticks after which instance k is below the reset boundary at the
\* latest: every tick lowers it by at least factorY * speedFactor * 6
TicksToBoundary(k) ==
    LET p == particles[k]
        fall == p.factorY * p.speedFactor * 6
        dist == matBuf[k].y - BoundaryY(species, viewport, MergeConfig(physicsGiven))
    IN  IF dist < 0 THEN 1 ELSE dist \div fall + 1

\* instance k was respawned by the frame step that ran last
Respawned(k) ==
    /\ lastOp = "frame"
    /\ (k - 1) \in frameIn.reset
    /\ matBuf[k].y > TopEdge(viewport)

SoloMatrices(kind, op) ==
    IF op.op = "setup"
    THEN SetupSlots(leafParts[kind], counts[kind], leafMat[kind])
    ELSE FrameLoop("leaves", 0, counts[kind],
                   LeafEnv(kind, op.time, op.delta60, op.seed),
                   [mat |-> leafMat[kind], col |-> <<>>, parts |-> leafParts[kind],
                    log |-> <<>>, reset |-> {}, any |-> FALSE]).mat

C26_CountSplit ==
    totalCount >= 0 =>
        /\ \A kind \in LeafKinds : counts[kind] >= 0
        /\ counts.maple + counts.oak + counts.birch = totalCount
        /\ counts.maple >= counts.oak /\ counts.oak >= counts.birch
        /\ counts.maple - counts.birch <= 1
        /\ \A kind \in LeafKinds :
              counts[kind] = 0 => leafPhase[kind] = "none" /\ leafParts[kind] = <<>>

\* two leaves: one maple, one oak and no birch compositor
C26_Witness ==
    /\ totalCount = 2
    /\ counts = [maple |-> 1, oak |-> 1, birch |-> 0]
    /\ leafPhase = [maple |-> "committed", oak |-> "committed", birch |-> "none"]
    /\ Len(leafParts["oak"]) = 1

\* C27: whatever was stored at cold start, whatever the hour and however
\* often the mode was toggled, the current weather mode of a mounted page is
\* one of WEATHER_MODES, and renderParticles selects the effect of that mode:
\* never its default branch, and never the component of another mode.
C27_ModeAlwaysListed ==
    pagePhase \in {"mounted", "ready"} =>
        /\ Includes(WEATHER_MODES, weatherMode)
        /\ renderParticles(weatherMode) # "null"
        /\ \A k \in 1..Len(WEATHER_MODES) :
              renderParticles(WEATHER_MODES[k]) = renderParticles(weatherMode)
                  => WEATHER_MODES[k] = weatherMode

\* a morning session that started in snow and was toggled twice, to autumn
C27_Witness ==
    /\ pagePhase = "ready"
    /\ appRevision = "part_000" /\ currentHour = 7
    /\ modeTrace = <<"snow", "rain", "autumn">>
    /\ weatherMode = "autumn"
    /\ renderParticles(weatherMode) = "AutumnLeaves"

\* a click on the toggle button: the step of toggleWeatherMode
ToggleStep == pagePhase = "ready" /\ modeTrace' = Append(modeTrace, weatherMode')

\* C28: in every mode the controller can be in, the mode the toggle button
\* announces as next (nextModeKey, shown in its label and tooltip) is the
\* mode the controller switches to when the button is clicked, for each
\* revision of the button.
C28_ButtonAnnouncesSuccessor ==
    [][ToggleStep =>
          \A rev \in ToggleRevisions : weatherMode' = nextModeKey(rev, weatherMode)]_vars

\* C29: once the theme effect of a mount has run, localStorage holds a valid
\* mode (the current one) and keeps holding one; a cold start that follows a
\* session whose effect ran starts in the mode that session ended in, whatever
\* the hour and the coin, even when that session was never toggled.
C29_StoredModeDecidesLaterStarts ==
    /\ pagePhase = "ready" =>
          SavedIsValid(storedWeatherMode) /\ storedWeatherMode = <<weatherMode>>
    /\ prevSession.persisted => SavedIsValid(storedWeatherMode)
    /\ prevSession.persisted /\ pagePhase \in {"mounted", "ready"} =>
          initialWeatherModeGlobal = prevSession.mode /\ modeTrace[1] = prevSession.mode

\* a second cold start at 20h, after an untoggled session that ended in snow:
\* the page starts in snow, not in the fireflies of the night band
C29_Witness ==
    /\ appRevision = "part_000"
    /\ prevSession = [mode |-> "snow", persisted |-> TRUE, toggles |-> 0]
    /\ pagePhase = "mounted"
    /\ currentHour = 20
    /\ weatherMode = "snow"
    /\ FourBandDefault(currentHour, TRUE) = "fireflies"

\* C30: after isLoading has become false the loading screen becomes hidden
\* (unless the page is closed first), and while the page is mounted the hide
\* timer that was started is never cancelled before it fires.
C30_HideTimerHides ==
    /\ (pagePhase \in {"mounted", "ready"} /\ ~isLoading)
           ~> (isHidden \/ pagePhase = "closed")
    /\ [](pagePhase \in {"mounted", "ready"} => hideTimer # "cleared")
====
